---- MODULE Spec2Model ----
(***************************************************************************)
(* A state-machine model of the PlayRho world (WorldImpl): the slot        *)
(* allocators, the entity lists, the broad-phase proxy queue, the contact  *)
(* life cycle and the phases of WorldImpl::Step.                           *)
(*                                                                         *)
(* Geometry is one-dimensional: a transformation is an integer location,   *)
(* the AABB of a shape child at location l is the interval [l, l], and     *)
(* two shapes touch exactly when they are at the same location.  Unit      *)
(* time steps are used, so a velocity is a displacement per step.          *)
(***************************************************************************)
EXTENDS Integers, Sequences, FiniteSets, TLC

(***************************************************************************)
(* Bounds of the model.                                                    *)
(***************************************************************************)
\* Scaled-down identifier-count maxima (Settings: MaxBodies, MaxFixtures, MaxJoints).
MaxBodies == 3
MaxFixtures == 3
MaxJoints == 2
\* Locations are 0 .. MaxLoc.
MaxLoc == 3
\* Number of world API calls in one behaviour.
MaxOps == 9
\* Number of TOI events handled in one step (StepConf::maxSubSteps).
MaxSubSteps == 1

\* The contact maximum is never the limiting factor in the model.
MaxContacts == MaxFixtures * MaxFixtures

InvalidBodyID == -1
InvalidFixtureID == -1
InvalidContactID == -1

Locs == 0 .. MaxLoc
Vels == {-1, 0, 1}
BodyTypes == {"Static", "Kinematic", "Dynamic"}

(***************************************************************************)
(* Sequence helpers (std::find, std::remove, EraseFirst, EraseAll).        *)
(***************************************************************************)
Range(s) == {s[i] : i \in 1 .. Len(s)}

Last(s) == s[Len(s)]

Front(s) == SubSeq(s, 1, Len(s) - 1)

Has(s, x) == \E i \in 1 .. Len(s) : s[i] = x

RECURSIVE SeqFilter(_, _)
SeqFilter(s, keep) == IF s = <<>> THEN <<>> ELSE IF Head(s) \in keep THEN <<Head(s)>> \o SeqFilter(Tail(s), keep) ELSE SeqFilter(Tail(s), keep)

EraseAll(s, x) == SeqFilter(s, Range(s) \ {x})

FirstIndex(s, x) == IF Has(s, x) THEN CHOOSE i \in 1 .. Len(s) : s[i] = x /\ \A j \in 1 .. (i - 1) : s[j] # x ELSE 0

RemoveAt(s, i) == SubSeq(s, 1, i - 1) \o SubSeq(s, i + 1, Len(s))

EraseFirst(s, x) == IF Has(s, x) THEN RemoveAt(s, FirstIndex(s, x)) ELSE s

(***************************************************************************)
(* ArrayAllocator<T>: m_data (used and free slots) and m_free (a stack of  *)
(* free indices).  Identifiers count from 0, m_data[id] is data[id + 1].   *)
(***************************************************************************)
EmptyAllocator == [data |-> <<>>, free |-> <<>>]

Size(buf) == Len(buf.data)

InRange(buf, id) == id >= 0 /\ id < Size(buf)

At(buf, id) == buf.data[id + 1]

Put(buf, id, v) == [buf EXCEPT !.data[id + 1] = v]

\* Allocate handing out the lowest free index.
AllocIndexLowest(buf) == IF buf.free # <<>> THEN CHOOSE x \in Range(buf.free) : \A y \in Range(buf.free) : x <= y ELSE Size(buf)

\* The index Allocate hands out: the back of the free list, else the array size.
AllocIndex(buf) == IF buf.free # <<>> THEN Last(buf.free) ELSE Size(buf)

\* Allocate writes m_data[index] without a range check.
AllocFaults(buf) == buf.free # <<>> /\ ~InRange(buf, Last(buf.free))

Allocate(buf, v) == IF buf.free # <<>> THEN [data |-> [buf.data EXCEPT ![Last(buf.free) + 1] = v], free |-> Front(buf.free)] ELSE [data |-> Append(buf.data, v), free |-> buf.free]

\* Free writes m_data[index] without a range check.
FreeFaults(buf, id) == ~InRange(buf, id)

Free(buf, id, blank) == [data |-> [buf.data EXCEPT ![id + 1] = blank], free |-> Append(buf.free, id)]

\* used(array): size minus the free pool.
Used(buf) == Size(buf) - Len(buf.free)

(***************************************************************************)
(* Entities.                                                               *)
(***************************************************************************)
NoToi == -1

IsSpeedable(b) == b.type # "Static"

IsAccelerable(b) == b.type = "Dynamic"

\* Body::GetFlags(BodyConf): only speedable bodies can be awake; static and
\* kinematic bodies and bullets are impenetrable.
BodyAwakeFlag(bd) == IF bd.awake THEN bd.type # "Static" ELSE (~bd.allowSleep /\ bd.type # "Static")

\* The positive infinity of the floating-point type Real: greater than every
\* finite value, and absorbing in sums.
Infinity == 99

Plus(a, b) == IF a >= Infinity \/ b >= Infinity THEN Infinity ELSE a + b

\* Inverse masses and inverse rotational inertias are quotients <<numerator,
\* denominator>>.  Real{1} / x for a positive x: the quotient of 1 and a finite
\* x, and 0 for the infinite one.
Zero == <<0, 1>>

Inverse(x) == IF x >= Infinity THEN Zero ELSE <<1, x>>

\* Body::SetVelocity ignoring the type of the body.
SetVelocityAnyway(b, velocity) ==
    IF velocity # 0 THEN [b EXCEPT !.awake = TRUE, !.underActiveTime = 0, !.velocity = velocity]
    ELSE [b EXCEPT !.velocity = velocity]

\* Body::SetVelocity: a non-zero velocity is ignored by a body that is not
\* speedable, and wakes a body that is.
BodySetVelocity(b, velocity) ==
    IF velocity # 0
    THEN IF ~IsSpeedable(b) THEN b ELSE [b EXCEPT !.awake = TRUE, !.underActiveTime = 0, !.velocity = velocity]
    ELSE [b EXCEPT !.velocity = velocity]

\* playrho::GetAngle of an acceleration along the one axis: 0, or pi (here 1)
\* for one that points backwards.
GetAngle(a) == IF a < 0 THEN 1 ELSE 0

\* Body::SetAcceleration: no change for the same acceleration; a non-zero
\* acceleration is ignored by a body that is not accelerable; an increasing
\* or turning acceleration wakes the body.
BodySetAcceleration(b, linear) ==
    IF b.acceleration = linear THEN b
    ELSE IF ~IsAccelerable(b) THEN (IF linear # 0 THEN b ELSE [b EXCEPT !.acceleration = linear])
    ELSE IF (b.acceleration * b.acceleration) < (linear * linear) \/ GetAngle(b.acceleration) # GetAngle(linear)
         THEN [b EXCEPT !.awake = TRUE, !.underActiveTime = 0, !.acceleration = linear]
    ELSE [b EXCEPT !.acceleration = linear]

\* The member initializers of Body::Body(BodyConf).
BodyMembers(bd) ==
    [type |-> bd.type,
     awake |-> BodyAwakeFlag(bd),
     enabled |-> bd.enabled,
     impenetrable |-> bd.type # "Dynamic" \/ bd.bullet,
     allowSleep |-> bd.allowSleep,
     xf |-> bd.location,
     pos0 |-> bd.location,
     pos1 |-> bd.location,
     alpha0 |-> 0,
     velocity |-> 0,
     acceleration |-> 0,
     invMass |-> IF bd.type = "Dynamic" THEN Inverse(1) ELSE Zero,
     invRotI |-> Zero,
     underActiveTime |-> 0,
     massDataDirty |-> FALSE,
     fixtures |-> <<>>,
     contacts |-> <<>>,
     joints |-> <<>>]

\* Body::Body(BodyConf): the members, then SetVelocity and SetAcceleration
\* with the configured velocity and acceleration.
NewBody(bd) == BodySetAcceleration(BodySetVelocity(BodyMembers(bd), bd.linearVelocity), bd.linearAcceleration)

DefaultBodyConf == [type |-> "Static", location |-> 0, linearVelocity |-> 0, linearAcceleration |-> 0, bullet |-> FALSE, awake |-> TRUE, allowSleep |-> TRUE, enabled |-> TRUE]

\* Body{}: what ArrayAllocator::Free leaves in a freed body slot.
BlankBody == NewBody(DefaultBodyConf)

\* Filter: category bits, mask bits and group index.
DefaultFilter == [categoryBits |-> {1}, maskBits |-> {1}, groupIndex |-> 0]

NewFixture(bodyID, def) == [body |-> bodyID, sensor |-> def.isSensor, filter |-> def.filter, density |-> def.density, proxies |-> <<>>]

BlankFixture == [body |-> InvalidBodyID, sensor |-> FALSE, filter |-> DefaultFilter, density |-> 0, proxies |-> <<>>]

\* Contact(bodyA, fixtureA, indexA, bodyB, fixtureB, indexB): enabled and in need of an update.
NewContact(bA, fA, iA, bB, fB, iB) ==
    [bodyA |-> bA, fixtureA |-> fA, indexA |-> iA, bodyB |-> bB, fixtureB |-> fB, indexB |-> iB,
     enabled |-> TRUE, touching |-> FALSE, sensor |-> FALSE, active |-> FALSE, impenetrable |-> FALSE,
     needsUpdating |-> TRUE, needsFiltering |-> FALSE, toi |-> NoToi, toiCount |-> 0]

BlankContact == NewContact(InvalidBodyID, InvalidFixtureID, 0, InvalidBodyID, InvalidFixtureID, 0)

BlankManifold == [pointCount |-> 0]

\* Joint{}: no bodies, collide-connected false.
BlankJoint == [bodyA |-> InvalidBodyID, bodyB |-> InvalidBodyID, collideConnected |-> FALSE]

\* The dynamic tree (leaves only): each node slot is a leaf in use or a free slot.
BlankLeaf == [used |-> FALSE, lo |-> 0, hi |-> 0, body |-> InvalidBodyID, fixture |-> InvalidFixtureID, childIndex |-> 0]

(***************************************************************************)
(* State.                                                                  *)
(***************************************************************************)
VARIABLES
    m_bodyBuffer, m_fixtureBuffer, m_contactBuffer, m_manifoldBuffer, m_jointBuffer,
    m_bodies, m_joints, m_contacts,
    m_bodiesForProxies, m_fixturesForProxies, m_proxies, m_tree,
    m_flags,
    m_islandedBodies, m_islandedContacts, m_islandedJoints,
    fault,
    pc, conf, ops, lastOp, result, log, ev, islands,
    rope, gear

worldVars == <<m_bodyBuffer, m_fixtureBuffer, m_contactBuffer, m_manifoldBuffer, m_jointBuffer, m_bodies, m_joints, m_contacts, m_bodiesForProxies, m_fixturesForProxies, m_proxies, m_tree, m_flags, m_islandedBodies, m_islandedContacts, m_islandedJoints>>

vars == <<worldVars, fault, pc, conf, ops, lastOp, result, log, ev, islands, rope, gear>>

\* The members of the world (and the listener record) as one value, so that a
\* handler is a composition of the functions it calls.
World ==
    [bodyBuffer |-> m_bodyBuffer, fixtureBuffer |-> m_fixtureBuffer, contactBuffer |-> m_contactBuffer,
     manifoldBuffer |-> m_manifoldBuffer, jointBuffer |-> m_jointBuffer,
     bodies |-> m_bodies, joints |-> m_joints, contacts |-> m_contacts,
     bodiesForProxies |-> m_bodiesForProxies, fixturesForProxies |-> m_fixturesForProxies,
     proxies |-> m_proxies, tree |-> m_tree, flags |-> m_flags,
     islandedBodies |-> m_islandedBodies, islandedContacts |-> m_islandedContacts, islandedJoints |-> m_islandedJoints,
     fault |-> fault, log |-> log, ev |-> ev, islands |-> islands]

Commit(w) ==
    /\ m_bodyBuffer' = w.bodyBuffer
    /\ m_fixtureBuffer' = w.fixtureBuffer
    /\ m_contactBuffer' = w.contactBuffer
    /\ m_manifoldBuffer' = w.manifoldBuffer
    /\ m_jointBuffer' = w.jointBuffer
    /\ m_bodies' = w.bodies
    /\ m_joints' = w.joints
    /\ m_contacts' = w.contacts
    /\ m_bodiesForProxies' = w.bodiesForProxies
    /\ m_fixturesForProxies' = w.fixturesForProxies
    /\ m_proxies' = w.proxies
    /\ m_tree' = w.tree
    /\ m_flags' = w.flags
    /\ m_islandedBodies' = w.islandedBodies
    /\ m_islandedContacts' = w.islandedContacts
    /\ m_islandedJoints' = w.islandedJoints
    /\ fault' = w.fault
    /\ log' = w.log
    /\ ev' = w.ev
    /\ islands' = w.islands
    /\ UNCHANGED <<rope, gear>>

\* The record of the listener events of the contacts of a slot: the last
\* begin/end-contact event of the slot's current contact, whether begin and end
\* have alternated from begin for every contact of the slot and every contact
\* replaced in the slot had ended, whether a post-solve fired for the current
\* contact, and whether every post-solve of the slot followed a begin-contact
\* of its contact with no end-contact in between, and whether every pre-solve
\* of the slot was for a contact that was then touching and had no sensor
\* fixture.
NoEvents == [last |-> "none", alternating |-> TRUE, solved |-> FALSE, preceded |-> TRUE, apt |-> TRUE]

ContactSlots == 0 .. (MaxContacts - 1)

(***************************************************************************)
(* The rope joint (Box2D/Dynamics/Joints/RopeJoint.cpp) on a line: both    *)
(* anchors are the bodies' centres, so that the lever arms m_rA and m_rB   *)
(* and every cross product with them are zero.  RealNum is a fixed-point   *)
(* number of resolution 1 / Unit: the integer n stands for n / Unit.       *)
(***************************************************************************)
Unit == 2

\* RealNum multiplication and division.
Mul(a, b) == (a * b) \div Unit

Quot(a, b) == (a * Unit) \div b

\* GetLength of a vector of the line.
GetLength(v) == IF v < 0 THEN -v ELSE v

\* RopeJointDef: the maximum length is 0 unless the caller sets it.
DefaultRopeJointDef == [maxLength |-> 0]

\* RopeJoint::RopeJoint.
NewRopeJoint(def) ==
    [maxLength |-> def.maxLength, mass |-> 0, impulse |-> 0, state |-> "inactiveLimit", length |-> 0,
     u |-> 0, invMassA |-> 0, invMassB |-> 0]

\* The body constraints of the joint's two bodies.
RestingConstraints == [posA |-> 0, velA |-> 0, invMassA |-> 0, posB |-> 0, velB |-> 0, invMassB |-> 0]

\* The members of StepConf and ConstraintSolverConf the joint reads.
WarmStep == [doWarmStart |-> TRUE, dtRatio |-> Unit, invTime |-> Unit, linearSlop |-> 0]

\* The impulse P applied to both bodies' velocities.
ApplyImpulse(j, bodies, P) ==
    [bodies EXCEPT !.velA = @ - Mul(j.invMassA, P), !.velB = @ + Mul(j.invMassB, P)]

\* RopeJoint::InitVelocityConstraints: the joint and the body constraints
\* it leaves.
InitVelocityConstraints(joint, bodies, step) ==
    LET u == bodies.posB - bodies.posA
        length == GetLength(u)
        C == length - joint.maxLength
        j1 == [joint EXCEPT !.invMassA = bodies.invMassA, !.invMassB = bodies.invMassB, !.length = length,
                            !.state = IF C > 0 THEN "atUpperLimit" ELSE "inactiveLimit"]
        invMass == bodies.invMassA + bodies.invMassB
        j2 == [j1 EXCEPT !.u = Quot(u, length), !.mass = IF invMass # 0 THEN Quot(Unit, invMass) ELSE 0]
        j3 == [j2 EXCEPT !.impulse = Mul(@, step.dtRatio)]
    IN  IF ~(length > step.linearSlop)
        THEN [joint |-> [j1 EXCEPT !.u = 0, !.mass = 0, !.impulse = 0], bodies |-> bodies]
        ELSE IF step.doWarmStart
             THEN [joint |-> j3, bodies |-> ApplyImpulse(j3, bodies, Mul(j3.impulse, j3.u))]
             ELSE [joint |-> [j2 EXCEPT !.impulse = 0], bodies |-> bodies]

\* The accumulated impulse with the increment added and not clamped.
AccumulateFreely(old, impulse) == old + impulse

\* m_impulse = Min(RealNum{0}, m_impulse + impulse).
Accumulate(old, impulse) == IF 0 < old + impulse THEN 0 ELSE old + impulse

\* RopeJoint::SolveVelocityConstraints.
SolveVelocityConstraints(joint, bodies, step) ==
    LET C == joint.length - joint.maxLength
        Cdot == Mul(joint.u, bodies.velB - bodies.velA) + (IF C < 0 THEN Mul(step.invTime, C) ELSE 0)
        m_impulse == Accumulate(joint.impulse, Mul(-joint.mass, Cdot))
        impulse == m_impulse - joint.impulse
    IN  [joint |-> [joint EXCEPT !.impulse = m_impulse], bodies |-> ApplyImpulse(joint, bodies, Mul(impulse, joint.u))]

(***************************************************************************)
(* The gear joint (Dynamics/Joints/GearJoint.cpp) on a line: the joint     *)
(* couples a coordinate of body A relative to body C with a coordinate of  *)
(* body B relative to body D, each an angle (revolute) or a length along   *)
(* the line (prismatic, anchors at the centres, so that the lever arms are *)
(* zero, and reference angles of zero).  Real numbers are fixed-point      *)
(* numbers as for the rope joint.                                          *)
(***************************************************************************)
\* GearJointDef: two revolute joints, ratio 1.
DefaultGearJointDef == [type1 |-> "Revolute", type2 |-> "Revolute", ratio |-> Unit, constant |-> 0]

\* A body constraint at rest at the origin that cannot be moved.
Grounded == [linear |-> 0, angular |-> 0, invMass |-> 0, invRotInertia |-> 0]

\* The body constraints of the joint's four bodies.
GroundedConstraints == [A |-> Grounded, B |-> Grounded, C |-> Grounded, D |-> Grounded]

\* coordinateA, coordinateB and the inverse masses of the two sides.
Coordinate(type, body, ground) == IF type = "Revolute" THEN body.angular - ground.angular ELSE body.linear - ground.linear

SideInvMass(type, body, ground) == IF type = "Revolute" THEN body.invRotInertia + ground.invRotInertia ELSE body.invMass + ground.invMass

\* C = (coordinateA + m_ratio * coordinateB) - m_constant.
ConstraintError(joint, bodies) ==
    Coordinate(joint.type1, bodies.A, bodies.C) + Mul(joint.ratio, Coordinate(joint.type2, bodies.B, bodies.D)) - joint.constant

\* posX += Position{invMass * impulse * Jv, invRotInertia * impulse * Jw}.
Moved(type, body, impulse) ==
    IF type = "Revolute" THEN [body EXCEPT !.angular = @ + Mul(body.invRotInertia, impulse)]
    ELSE [body EXCEPT !.linear = @ + Mul(body.invMass, impulse)]

\* GearJoint::SolvePositionConstraints: the body constraints it leaves and
\* the value it returns.
SolvePositionConstraints(joint, bodies, cf) ==
    LET linearError == 0
        invMass == SideInvMass(joint.type1, bodies.A, bodies.C) + Mul(Mul(joint.ratio, joint.ratio), SideInvMass(joint.type2, bodies.B, bodies.D))
        C == ConstraintError(joint, bodies)
        impulse == IF invMass > 0 THEN Quot(-C, invMass) ELSE 0
        left == [A |-> Moved(joint.type1, bodies.A, impulse), B |-> Moved(joint.type2, bodies.B, Mul(joint.ratio, impulse)),
                 C |-> Moved(joint.type1, bodies.C, -impulse), D |-> Moved(joint.type2, bodies.D, -Mul(joint.ratio, impulse))]
    IN  [bodies |-> left, solved |-> linearError < cf.linearSlop]

\* StepConf: the members of the step configuration the model uses.
DefaultStepConf == [deltaTime |-> 0, doToi |-> FALSE, aabbExtension |-> 1, displaceMultiplier |-> 1, maxSubSteps |-> MaxSubSteps, minStillTimeToSleep |-> 1, regPositionIterations |-> 1]

\* WorldImpl::WorldImpl: empty containers, not locked, step complete.
Init ==
    /\ m_bodyBuffer = EmptyAllocator
    /\ m_fixtureBuffer = EmptyAllocator
    /\ m_contactBuffer = EmptyAllocator
    /\ m_manifoldBuffer = EmptyAllocator
    /\ m_jointBuffer = EmptyAllocator
    /\ m_bodies = <<>>
    /\ m_joints = <<>>
    /\ m_contacts = <<>>
    /\ m_bodiesForProxies = <<>>
    /\ m_fixturesForProxies = <<>>
    /\ m_proxies = <<>>
    /\ m_tree = <<>>
    /\ m_flags = [locked |-> FALSE, newFixture |-> FALSE, stepComplete |-> TRUE, subStepping |-> FALSE]
    /\ m_islandedBodies = <<>>
    /\ m_islandedContacts = <<>>
    /\ m_islandedJoints = <<>>
    /\ fault = "none"
    /\ pc = "idle"
    /\ conf = DefaultStepConf
    /\ ops = 0
    /\ lastOp = "none"
    /\ result = "none"
    /\ log = <<>>
    /\ ev = [c \in ContactSlots |-> NoEvents]
    /\ islands = <<>>
    /\ rope = [joint |-> NewRopeJoint(DefaultRopeJointDef), bodies |-> RestingConstraints, step |-> WarmStep, calls |-> <<>>]
    /\ gear = [joint |-> DefaultGearJointDef, bodies |-> GroundedConstraints, conf |-> [linearSlop |-> 1], solved |-> FALSE, calls |-> <<>>]

(***************************************************************************)
(* Listeners.  All four contact listeners and both destruction listeners   *)
(* are registered when the world is constructed and stay registered.  An   *)
(* invocation is recorded in log and, for begin-contact, end-contact and   *)
(* post-solve, in the event record of the contact's slot.                  *)
(***************************************************************************)
Occurred(e, what) ==
    [e EXCEPT !.last = what,
              !.alternating = @ /\ (IF what = "begin" THEN e.last # "begin" ELSE e.last = "begin")]

\* The record of a slot when a new contact is allocated in it.
Replaced(e) == [NoEvents EXCEPT !.alternating = e.alternating /\ e.last # "begin", !.preceded = e.preceded, !.apt = e.apt]

Emit(w, what, id) ==
    LET w1 == [w EXCEPT !.log = Append(@, <<what, id>>)]
    IN  IF what \in {"begin", "end"} THEN [w1 EXCEPT !.ev[id] = Occurred(@, what)]
        ELSE IF what = "postsolve" THEN [w1 EXCEPT !.ev[id].solved = TRUE, !.ev[id].preceded = @ /\ w.ev[id].last = "begin"]
        ELSE IF what = "presolve"
        THEN [w1 EXCEPT !.ev[id].apt = @ /\ At(w.contactBuffer, id).touching
                                         /\ ~At(w.fixtureBuffer, At(w.contactBuffer, id).fixtureA).sensor
                                         /\ ~At(w.fixtureBuffer, At(w.contactBuffer, id).fixtureB).sensor]
        ELSE w1

\* Behaviour is undefined (an out-of-range slot is written or read) or the
\* handler never returns: the model records it and takes no further step.
Fault(w, kind) == IF w.fault = "none" THEN [w EXCEPT !.fault = kind] ELSE w

Ok(w) == w.fault = "none"

(***************************************************************************)
(* Body methods.                                                           *)
(***************************************************************************)
\* Body::SetAwake: ignored unless the body is speedable.
SetAwake(b) == IF IsSpeedable(b) THEN [b EXCEPT !.awake = TRUE, !.underActiveTime = 0] ELSE b

BodyAt(w, id) == At(w.bodyBuffer, id)

WithBody(w, id, b) == [w EXCEPT !.bodyBuffer = Put(@, id, b)]

ContactAt(w, id) == At(w.contactBuffer, id)

WithContact(w, id, c) == [w EXCEPT !.contactBuffer = Put(@, id, c)]

FixtureAt(w, id) == At(w.fixtureBuffer, id)

JointAt(w, id) == At(w.jointBuffer, id)

\* The contact identifiers of a body's contact list, in list order.
ContactIds(list) == [i \in 1 .. Len(list) |-> list[i].id]

RECURSIVE EraseEntry(_, _)
\* Body::Erase(ContactID), Body::Erase(JointID), and the find_if/erase of the
\* world's lists: the first entry with the identifier is removed.
EraseEntry(list, id) == IF list = <<>> THEN <<>> ELSE IF Head(list).id = id THEN Tail(list) ELSE <<Head(list)>> \o EraseEntry(Tail(list), id)

HasEntry(list, id) == \E i \in 1 .. Len(list) : list[i].id = id

RECURSIVE FlagAll(_, _)
\* FlagForUpdating(contactsBuffer, contacts).
FlagAll(w, list) == IF list = <<>> THEN w ELSE FlagAll([w EXCEPT !.contactBuffer.data[Head(list).id + 1].needsUpdating = TRUE], Tail(list))

FlagForUpdating(w, bodyID) == FlagAll(w, BodyAt(w, bodyID).contacts)

RECURSIVE FlagFiltering(_, _, _, _)
FlagFiltering(w, bodyA, list, bodyB) ==
    IF list = <<>> THEN w
    ELSE LET c == ContactAt(w, Head(list).id)
             other == IF c.bodyA # bodyB THEN c.bodyA ELSE c.bodyB
             w1 == IF other = bodyA THEN [w EXCEPT !.contactBuffer.data[Head(list).id + 1].needsFiltering = TRUE] ELSE w
         IN  FlagFiltering(w1, bodyA, Tail(list), bodyB)

\* FlagContactsForFiltering(contactBuffer, bodyA, contactsBodyB, bodyB).
FlagContactsForFiltering(w, bodyA, bodyB) == FlagFiltering(w, bodyA, BodyAt(w, bodyB).contacts, bodyB)

\* ShouldCollide(fixtureA, fixtureB): the filter test.
FiltersCollide(fA, fB) ==
    IF fA.filter.groupIndex = fB.filter.groupIndex /\ fA.filter.groupIndex # 0 THEN fA.filter.groupIndex > 0
    ELSE (fA.filter.maskBits \cap fB.filter.categoryBits) # {} /\ (fA.filter.categoryBits \cap fB.filter.maskBits) # {}

\* ShouldCollide(jointBuffer, lhs, rhs, rhsID): one body accelerable and no
\* joint of lhs to rhs with collide-connected false.
ShouldCollide(w, lhs, rhs, rhsID) ==
    /\ IsAccelerable(lhs) \/ IsAccelerable(rhs)
    /\ ~\E i \in 1 .. Len(lhs.joints) : lhs.joints[i].other = rhsID /\ ~JointAt(w, lhs.joints[i].id).collideConnected

(***************************************************************************)
(* Contact destruction.                                                    *)
(***************************************************************************)
\* InternalDestroy erasing the contact from the first body's list only.
ReleasedFromOne(w, contactID, from) ==
    LET c == ContactAt(w, contactID)
        eraseA == IF c.bodyA # from THEN [w EXCEPT !.bodyBuffer.data[c.bodyA + 1].contacts = EraseEntry(@, contactID)] ELSE w
    IN  [eraseA EXCEPT !.contactBuffer = Free(@, contactID, BlankContact), !.manifoldBuffer = Free(@, contactID, BlankManifold)]

\* InternalDestroy freeing the contact and leaving its manifold allocated.
ReleasedKeepingManifold(w, contactID, from) ==
    LET c == ContactAt(w, contactID)
        eraseA == IF c.bodyA # from THEN [w EXCEPT !.bodyBuffer.data[c.bodyA + 1].contacts = EraseEntry(@, contactID)] ELSE w
        eraseB == IF c.bodyB # from THEN [eraseA EXCEPT !.bodyBuffer.data[c.bodyB + 1].contacts = EraseEntry(@, contactID)] ELSE eraseA
    IN  [eraseB EXCEPT !.contactBuffer = Free(@, contactID, BlankContact)]

\* WorldImpl::InternalDestroy after the listener: the contact is erased from
\* its bodies other than from, the bodies are woken if the contact had manifold
\* points and is not a sensor, and the contact and its manifold are freed.
Released(w, contactID, from) ==
    LET c == ContactAt(w, contactID)
        m == At(w.manifoldBuffer, contactID)
        eraseA == IF c.bodyA # from THEN [w EXCEPT !.bodyBuffer.data[c.bodyA + 1].contacts = EraseEntry(@, contactID)] ELSE w
        eraseB == IF c.bodyB # from THEN [eraseA EXCEPT !.bodyBuffer.data[c.bodyB + 1].contacts = EraseEntry(@, contactID)] ELSE eraseA
        woken == IF m.pointCount > 0 /\ ~c.sensor
                 THEN [eraseB EXCEPT !.bodyBuffer.data[c.bodyA + 1] = SetAwake(@), !.bodyBuffer.data[c.bodyB + 1] = SetAwake(@)]
                 ELSE eraseB
    IN  [woken EXCEPT !.contactBuffer = Free(@, contactID, BlankContact), !.manifoldBuffer = Free(@, contactID, BlankManifold)]

\* InternalDestroy calling the end-contact listener whether or not the contact
\* is touching.
InternalDestroyTelling(w, contactID, from) ==
    IF ~Ok(w) THEN w
    ELSE IF ~InRange(w.bodyBuffer, ContactAt(w, contactID).bodyA) \/ ~InRange(w.bodyBuffer, ContactAt(w, contactID).bodyB) THEN Fault(w, "ub")
    ELSE Released(Emit(w, "end", contactID), contactID, from)

\* WorldImpl::InternalDestroy(contactID, ..., listener, from).
InternalDestroy(w, contactID, from) ==
    IF ~Ok(w) THEN w
    ELSE IF ~InRange(w.bodyBuffer, ContactAt(w, contactID).bodyA) \/ ~InRange(w.bodyBuffer, ContactAt(w, contactID).bodyB) THEN Fault(w, "ub")
    ELSE IF ContactAt(w, contactID).touching THEN Released(Emit(w, "end", contactID), contactID, from)
    ELSE Released(w, contactID, from)

\* WorldImpl::Destroy(ContactID, Body* from).
DestroyContact(w, contactID, from) == InternalDestroy([w EXCEPT !.contacts = EraseEntry(@, contactID)], contactID, from)

RECURSIVE DestroyFrom(_, _, _)
\* Body::Erase(callback) where the callback destroys the contacts in ids: each
\* is destroyed with from = this body and then erased from this body's list.
DestroyFrom(w, bodyID, ids) ==
    IF ids = <<>> \/ ~Ok(w) THEN w
    ELSE LET w1 == DestroyContact(w, Head(ids), bodyID)
             w2 == [w1 EXCEPT !.bodyBuffer.data[bodyID + 1].contacts = EraseEntry(@, Head(ids))]
         IN  DestroyFrom(IF Ok(w1) THEN w2 ELSE w1, bodyID, Tail(ids))

\* The contacts of a body that involve the given fixture, in list order.
ContactsOfFixture(w, bodyID, fixtureID) ==
    LET ids == ContactIds(BodyAt(w, bodyID).contacts)
    IN  SeqFilter(ids, {id \in Range(ids) : ContactAt(w, id).fixtureA = fixtureID \/ ContactAt(w, id).fixtureB = fixtureID})

(***************************************************************************)
(* The dynamic tree and the fixture proxies.  A shape has one child.       *)
(***************************************************************************)
LeafAt(tree, id) == tree[id + 1]

IsLeaf(tree, id) == id >= 0 /\ id < Len(tree) /\ tree[id + 1].used

\* DynamicTree::CreateLeaf: the identifier of the node that becomes the leaf.
NewLeafId(tree) == IF \E i \in 1 .. Len(tree) : ~tree[i].used THEN (CHOOSE i \in 1 .. Len(tree) : ~tree[i].used /\ \A j \in 1 .. (i - 1) : tree[j].used) - 1 ELSE Len(tree)

CreateLeaf(tree, leaf) == IF NewLeafId(tree) < Len(tree) THEN [tree EXCEPT ![NewLeafId(tree) + 1] = leaf] ELSE Append(tree, leaf)

DestroyLeaf(tree, id) == [tree EXCEPT ![id + 1] = BlankLeaf]

UpdateLeaf(tree, id, lo, hi) == [tree EXCEPT ![id + 1].lo = lo, ![id + 1].hi = hi]

\* TestOverlap(tree, proxyIdA, proxyIdB) on the stored (fattened) AABBs.
TestOverlap(tree, a, b) == tree[a + 1].lo <= tree[b + 1].hi /\ tree[b + 1].lo <= tree[a + 1].hi

Min(a, b) == IF a < b THEN a ELSE b

Max(a, b) == IF a < b THEN b ELSE a

\* WorldImpl::CreateProxies: one leaf per child, fattened by the extension,
\* registered in the proxy queue.
CreateProxies(w, fixtureID, xfm, extension) ==
    LET f == FixtureAt(w, fixtureID)
        treeId == NewLeafId(w.tree)
        leaf == [used |-> TRUE, lo |-> xfm - extension, hi |-> xfm + extension, body |-> f.body, fixture |-> fixtureID, childIndex |-> 0]
    IN  [w EXCEPT !.tree = CreateLeaf(@, leaf), !.proxies = Append(@, treeId), !.fixtureBuffer.data[fixtureID + 1].proxies = <<treeId>>]

RECURSIVE DestroyLeaves(_, _)
DestroyLeaves(w, ids) ==
    IF ids = <<>> THEN w
    ELSE DestroyLeaves([w EXCEPT !.proxies = EraseFirst(@, Last(ids)), !.tree = DestroyLeaf(@, Last(ids))], Front(ids))

\* DestroyProxies(fixture, proxies, tree): in reverse order of creation, the
\* first queue entry of each proxy is erased and its leaf destroyed.
DestroyProxies(w, fixtureID) == [DestroyLeaves(w, FixtureAt(w, fixtureID).proxies) EXCEPT !.fixtureBuffer.data[fixtureID + 1].proxies = <<>>]

\* WorldImpl::InternalTouchProxies.
InternalTouchProxies(w, fixtureID) == [w EXCEPT !.proxies = @ \o FixtureAt(w, fixtureID).proxies]

RECURSIVE SynchronizeProxyList(_, _, _, _, _, _)
\* WorldImpl::Synchronize(fixture, xfm1, xfm2, displacement, extension).
SynchronizeProxyList(w, ids, xfm1, xfm2, displacement, extension) ==
    IF ids = <<>> THEN w
    ELSE LET id == Head(ids)
             lo == Min(xfm1, xfm2)
             hi == Max(xfm1, xfm2)
             contained == LeafAt(w.tree, id).lo <= lo /\ hi <= LeafAt(w.tree, id).hi
             newLo == (lo - extension) + Min(displacement, 0)
             newHi == (hi + extension) + Max(displacement, 0)
             w1 == IF contained THEN w ELSE [w EXCEPT !.tree = UpdateLeaf(@, id, newLo, newHi), !.proxies = Append(@, id)]
         IN  SynchronizeProxyList(w1, Tail(ids), xfm1, xfm2, displacement, extension)

RECURSIVE SynchronizeFixtures(_, _, _, _, _, _)
SynchronizeFixtures(w, fixtures, xfm1, xfm2, displacement, extension) ==
    IF fixtures = <<>> THEN w
    ELSE SynchronizeFixtures(SynchronizeProxyList(w, FixtureAt(w, Head(fixtures)).proxies, xfm1, xfm2, displacement, extension), Tail(fixtures), xfm1, xfm2, displacement, extension)

\* WorldImpl::Synchronize(body, xfm1, xfm2, multiplier, extension).
Synchronize(w, bodyID, xfm1, xfm2, cf) == SynchronizeFixtures(w, BodyAt(w, bodyID).fixtures, xfm1, xfm2, cf.displaceMultiplier * (xfm2 - xfm1), cf.aabbExtension)

(***************************************************************************)
(* Contact creation and the narrow-phase update.                           *)
(***************************************************************************)
\* WorldImpl::Add(ContactKey): the new contact, flagged from its bodies and fixtures.
AddedContact(w, key) ==
    LET la == LeafAt(w.tree, key[1])
        lb == LeafAt(w.tree, key[2])
        bodyA == BodyAt(w, la.body)
        bodyB == BodyAt(w, lb.body)
    IN  [NewContact(la.body, la.fixture, la.childIndex, lb.body, lb.fixture, lb.childIndex) EXCEPT
            !.impenetrable = bodyA.impenetrable \/ bodyB.impenetrable,
            !.active = bodyA.awake \/ bodyB.awake,
            !.sensor = FixtureAt(w, la.fixture).sensor \/ FixtureAt(w, lb.fixture).sensor]

\* WorldImpl::Add(ContactKey).
AddContact(w, key) ==
    LET la == LeafAt(w.tree, key[1])
        lb == LeafAt(w.tree, key[2])
        bodyA == BodyAt(w, la.body)
        bodyB == BodyAt(w, lb.body)
        bodyContacts == IF Len(bodyA.contacts) < Len(bodyB.contacts) THEN bodyA.contacts ELSE bodyB.contacts
        contactID == AllocIndex(w.contactBuffer)
        c == AddedContact(w, key)
        entry == [key |-> key, id |-> contactID]
        wakeA == IF ~c.sensor /\ IsSpeedable(bodyA) THEN [bodyA EXCEPT !.awake = TRUE] ELSE bodyA
        wakeB == IF ~c.sensor /\ IsSpeedable(bodyB) THEN [bodyB EXCEPT !.awake = TRUE] ELSE bodyB
    IN  IF ~Ok(w) THEN w
        ELSE IF ~ShouldCollide(w, bodyB, bodyA, la.body) \/ ~FiltersCollide(FixtureAt(w, la.fixture), FixtureAt(w, lb.fixture)) THEN w
        ELSE IF \E i \in 1 .. Len(bodyContacts) : bodyContacts[i].key = key THEN w
        ELSE IF Len(w.contacts) >= MaxContacts THEN w
        ELSE IF AllocFaults(w.contactBuffer) \/ AllocFaults(w.manifoldBuffer) THEN Fault(w, "ub")
        ELSE [w EXCEPT !.contactBuffer = Allocate(@, c),
                       !.manifoldBuffer = Allocate(@, BlankManifold),
                       !.contacts = Append(@, entry),
                       !.bodyBuffer.data[la.body + 1] = [wakeA EXCEPT !.contacts = Append(@, entry)],
                       !.bodyBuffer.data[lb.body + 1] = [wakeB EXCEPT !.contacts = Append(@, entry)],
                       !.ev[contactID] = Replaced(@)]

KeyLess(k1, k2) == k1[1] < k2[1] \/ (k1[1] = k2[1] /\ k1[2] < k2[2])

RECURSIVE SortKeys(_)
\* sort and unique of m_proxyKeys.
SortKeys(S) == IF S = {} THEN <<>> ELSE LET m == CHOOSE k \in S : \A o \in S \ {k} : KeyLess(k, o) IN <<m>> \o SortKeys(S \ {m})

\* The contact keys FindNewContacts collects: each queued proxy with every leaf
\* of another body whose AABB overlaps its own.
ProxyKeys(w) ==
    {<<Min(n, p), Max(n, p)>> : <<n, p>> \in {q \in (0 .. (Len(w.tree) - 1)) \X Range(w.proxies) :
        /\ IsLeaf(w.tree, q[1])
        /\ q[1] # q[2]
        /\ LeafAt(w.tree, q[1]).body # LeafAt(w.tree, q[2]).body
        /\ TestOverlap(w.tree, q[1], q[2])}}

RECURSIVE AddContacts(_, _)
AddContacts(w, keys) == IF keys = <<>> THEN w ELSE AddContacts(AddContact(w, Head(keys)), Tail(keys))

\* std::vector<bool>::resize.
Resize(flags, n) == [i \in 1 .. n |-> IF i <= Len(flags) THEN flags[i] ELSE FALSE]

\* WorldImpl::FindNewContacts.
FindNewContacts(w) ==
    IF ~Ok(w) THEN w
    ELSE IF \E p \in Range(w.proxies) : ~IsLeaf(w.tree, p) THEN Fault(w, "ub")
    ELSE LET w1 == AddContacts([w EXCEPT !.proxies = <<>>], SortKeys(ProxyKeys(w)))
         IN  IF Ok(w1) THEN [w1 EXCEPT !.islandedContacts = Resize(@, Len(w1.contacts))] ELSE w1

\* The shapes of the two fixture children overlap at the bodies' transformations.
Touches(w, c) == BodyAt(w, c.bodyA).xf = BodyAt(w, c.bodyB).xf

\* WorldImpl::Update calling pre-solve for every touching contact, sensor or
\* not.
UpdateTellingSensors(w, contactID) ==
    LET c == ContactAt(w, contactID)
        sensor == FixtureAt(w, c.fixtureA).sensor \/ FixtureAt(w, c.fixtureB).sensor
        oldTouching == c.touching
        newTouching == Touches(w, c)
        w1 == [w EXCEPT !.manifoldBuffer.data[contactID + 1] = [pointCount |-> IF ~sensor /\ newTouching THEN 1 ELSE 0],
                        !.contactBuffer.data[contactID + 1].needsUpdating = FALSE]
        w2 == IF ~oldTouching /\ newTouching THEN Emit([w1 EXCEPT !.contactBuffer.data[contactID + 1].touching = TRUE], "begin", contactID)
              ELSE IF oldTouching /\ ~newTouching THEN Emit([w1 EXCEPT !.contactBuffer.data[contactID + 1].touching = FALSE], "end", contactID)
              ELSE w1
    IN  IF ~Ok(w) THEN w
        ELSE IF ~InRange(w.fixtureBuffer, c.fixtureA) \/ ~InRange(w.fixtureBuffer, c.fixtureB) \/ ~InRange(w.bodyBuffer, c.bodyA) \/ ~InRange(w.bodyBuffer, c.bodyB) THEN Fault(w, "ub")
        ELSE IF newTouching THEN Emit(w2, "presolve", contactID)
        ELSE w2

\* WorldImpl::Update(ContactID, conf): recompute the touching state and the
\* manifold, and tell the listeners.
Update(w, contactID) ==
    LET c == ContactAt(w, contactID)
        sensor == FixtureAt(w, c.fixtureA).sensor \/ FixtureAt(w, c.fixtureB).sensor
        oldTouching == c.touching
        newTouching == Touches(w, c)
        w1 == [w EXCEPT !.manifoldBuffer.data[contactID + 1] = [pointCount |-> IF ~sensor /\ newTouching THEN 1 ELSE 0],
                        !.contactBuffer.data[contactID + 1].needsUpdating = FALSE]
        w2 == IF ~oldTouching /\ newTouching THEN Emit([w1 EXCEPT !.contactBuffer.data[contactID + 1].touching = TRUE], "begin", contactID)
              ELSE IF oldTouching /\ ~newTouching THEN Emit([w1 EXCEPT !.contactBuffer.data[contactID + 1].touching = FALSE], "end", contactID)
              ELSE w1
    IN  IF ~Ok(w) THEN w
        ELSE IF ~InRange(w.fixtureBuffer, c.fixtureA) \/ ~InRange(w.fixtureBuffer, c.fixtureB) \/ ~InRange(w.bodyBuffer, c.bodyA) \/ ~InRange(w.bodyBuffer, c.bodyB) THEN Fault(w, "ub")
        ELSE IF ~sensor /\ newTouching THEN Emit(w2, "presolve", contactID)
        ELSE w2

RECURSIVE UpdateContactList(_, _)
UpdateContactList(w, list) ==
    IF list = <<>> \/ ~Ok(w) THEN w
    ELSE LET id == Head(list).id
             c == ContactAt(w, id)
             enabled == [w EXCEPT !.contactBuffer.data[id + 1].enabled = TRUE]
             w1 == IF ~BodyAt(w, c.bodyA).awake /\ ~BodyAt(w, c.bodyB).awake THEN w
                   ELSE IF c.needsUpdating THEN Update(enabled, id)
                   ELSE enabled
         IN  UpdateContactList(w1, Tail(list))

\* WorldImpl::UpdateContacts.
UpdateContacts(w) == UpdateContactList(w, w.contacts)

RECURSIVE DestroyContactList(_, _, _)
DestroyContactList(w, todo, kept) ==
    IF ~Ok(w) THEN w
    ELSE IF todo = <<>> THEN [w EXCEPT !.contacts = kept]
    ELSE LET e == Head(todo)
             c == ContactAt(w, e.id)
             forbidden == \/ ~ShouldCollide(w, BodyAt(w, c.bodyB), BodyAt(w, c.bodyA), c.bodyA)
                          \/ ~FiltersCollide(FixtureAt(w, c.fixtureA), FixtureAt(w, c.fixtureB))
         IN  IF ~IsLeaf(w.tree, e.key[1]) \/ ~IsLeaf(w.tree, e.key[2]) THEN Fault(w, "ub")
             ELSE IF ~TestOverlap(w.tree, e.key[1], e.key[2]) THEN DestroyContactList(InternalDestroy(w, e.id, InvalidBodyID), Tail(todo), kept)
             ELSE IF c.needsFiltering /\ forbidden THEN DestroyContactList(InternalDestroy(w, e.id, InvalidBodyID), Tail(todo), kept)
             ELSE DestroyContactList([w EXCEPT !.contactBuffer.data[e.id + 1].needsFiltering = FALSE], Tail(todo), Append(kept, e))

\* WorldImpl::DestroyContacts: contacts whose proxies ceased to overlap, or that
\* are flagged for filtering and may no longer collide, are destroyed.
DestroyContacts(w) == DestroyContactList(w, w.contacts, <<>>)

RECURSIVE CreateAndDestroyProxyList(_, _, _)
CreateAndDestroyProxyList(w, fixtures, extension) ==
    IF fixtures = <<>> \/ ~Ok(w) THEN w
    ELSE LET fixtureID == Head(fixtures)
             f == FixtureAt(w, fixtureID)
             enabled == BodyAt(w, f.body).enabled
             w1 == IF ~InRange(w.bodyBuffer, f.body) THEN Fault(w, "ub")
                   ELSE IF f.proxies = <<>> THEN (IF enabled THEN CreateProxies(w, fixtureID, BodyAt(w, f.body).xf, extension) ELSE w)
                   ELSE IF ~enabled THEN DestroyFrom(DestroyProxies(w, fixtureID), f.body, ContactsOfFixture(w, f.body, fixtureID))
                   ELSE w
         IN  CreateAndDestroyProxyList(w1, Tail(fixtures), extension)

\* WorldImpl::CreateAndDestroyProxies.
CreateAndDestroyProxies(w, extension) == CreateAndDestroyProxyList(w, w.fixturesForProxies, extension)

RECURSIVE SynchronizeBodies(_, _, _)
SynchronizeBodies(w, ids, cf) ==
    IF ids = <<>> THEN w
    ELSE SynchronizeBodies(Synchronize(w, Head(ids), BodyAt(w, Head(ids)).xf, BodyAt(w, Head(ids)).xf, cf), Tail(ids), cf)

\* WorldImpl::SynchronizeProxies.
SynchronizeProxies(w, cf) == [SynchronizeBodies(w, w.bodiesForProxies, cf) EXCEPT !.bodiesForProxies = <<>>]

(***************************************************************************)
(* Joints.                                                                 *)
(***************************************************************************)
\* WorldImpl::Add(JointID, flagForFiltering): the joint is inserted into the
\* joint lists of the bodies it names; m_bodyBuffer is indexed unchecked.
InsertJoint(w, bodyID, other, id) ==
    IF bodyID # InvalidBodyID THEN [w EXCEPT !.bodyBuffer.data[bodyID + 1].joints = Append(@, [other |-> other, id |-> id])] ELSE w

\* Add(JointID) without flagging the contacts between the two bodies.
AddJointUnflagged(w, id, flagForFiltering) ==
    IF ~Ok(w) THEN w
    ELSE IF \E b \in {JointAt(w, id).bodyA, JointAt(w, id).bodyB} : b # InvalidBodyID /\ ~InRange(w.bodyBuffer, b) THEN Fault(w, "ub")
    ELSE InsertJoint(InsertJoint(w, JointAt(w, id).bodyA, JointAt(w, id).bodyB, id), JointAt(w, id).bodyB, JointAt(w, id).bodyA, id)

\* WorldImpl::Add(JointID, flagForFiltering).
AddJoint(w, id, flagForFiltering) ==
    LET joint == JointAt(w, id)
        bodyA == joint.bodyA
        bodyB == joint.bodyB
    IN  IF ~Ok(w) THEN w
        ELSE IF (bodyA # InvalidBodyID /\ ~InRange(w.bodyBuffer, bodyA)) \/ (bodyB # InvalidBodyID /\ ~InRange(w.bodyBuffer, bodyB)) THEN Fault(w, "ub")
        ELSE IF flagForFiltering /\ bodyA # InvalidBodyID /\ bodyB # InvalidBodyID
        THEN FlagContactsForFiltering(InsertJoint(InsertJoint(w, bodyA, bodyB, id), bodyB, bodyA, id), bodyA, bodyB)
        ELSE InsertJoint(InsertJoint(w, bodyA, bodyB, id), bodyB, bodyA, id)

\* The body is woken and the joint erased from its joint list.
EraseJoint(w, bodyID, id) ==
    IF bodyID # InvalidBodyID THEN [w EXCEPT !.bodyBuffer.data[bodyID + 1] = [SetAwake(@) EXCEPT !.joints = EraseEntry(@, id)]] ELSE w

\* WorldImpl::Remove(JointID): flags the contacts between the two bodies if the
\* joint prevented collisions, wakes the bodies and erases the joint from them.
RemoveJoint(w, id) ==
    LET joint == JointAt(w, id)
        bodyIdA == joint.bodyA
        bodyIdB == joint.bodyB
    IN  IF ~Ok(w) THEN w
        ELSE IF ~InRange(w.jointBuffer, id) THEN Fault(w, "ub")
        ELSE IF (bodyIdA # InvalidBodyID /\ ~InRange(w.bodyBuffer, bodyIdA)) \/ (bodyIdB # InvalidBodyID /\ ~InRange(w.bodyBuffer, bodyIdB)) THEN Fault(w, "ub")
        ELSE EraseJoint(EraseJoint(IF ~joint.collideConnected /\ bodyIdA # InvalidBodyID /\ bodyIdB # InvalidBodyID
                                   THEN FlagContactsForFiltering(w, bodyIdA, bodyIdB) ELSE w,
                                   bodyIdA, id), bodyIdB, id)

(***************************************************************************)
(* Bodies.                                                                 *)
(***************************************************************************)
\* WorldImpl::Remove(BodyID).
RemoveBody(w, id) ==
    LET w1 == [w EXCEPT !.bodiesForProxies = EraseAll(@, id)]
    IN  IF Has(w.bodies, id) THEN [w1 EXCEPT !.bodies = EraseFirst(@, id), !.bodyBuffer = Free(@, id, BlankBody)] ELSE w1

RECURSIVE DestroyBodyJoints(_, _)
\* The end of one iteration of the joint loop of WorldImpl::Destroy(BodyID):
\* the joint is erased from m_joints and the slot numbered like the BODY is
\* freed in the joint allocator.
DestroyedJoint(removed, jointID, id) ==
    IF ~Ok(removed) THEN removed
    ELSE IF FreeFaults(removed.jointBuffer, id) THEN Fault(removed, "ub")
    ELSE DestroyBodyJoints([removed EXCEPT !.joints = EraseFirst(@, jointID), !.jointBuffer = Free(@, id, BlankJoint)], id)

\* The joint loop of WorldImpl::Destroy(BodyID): as long as the body's joint
\* list is not empty, its first joint is reported, and if it is in m_joints it
\* is removed from its bodies.  The loop does not end when the first joint of
\* the list is not in m_joints.
DestroyBodyJoints(w, id) ==
    IF ~Ok(w) \/ BodyAt(w, id).joints = <<>> THEN w
    ELSE IF ~Has(w.joints, Head(BodyAt(w, id).joints).id) THEN Fault(Emit(w, "jointDestroyed", Head(BodyAt(w, id).joints).id), "hang")
    ELSE DestroyedJoint(RemoveJoint(Emit(w, "jointDestroyed", Head(BodyAt(w, id).joints).id), Head(BodyAt(w, id).joints).id),
                        Head(BodyAt(w, id).joints).id, id)

RECURSIVE DestroyBodyFixtures(_, _)
\* The fixture loop of WorldImpl::Destroy(BodyID).
DestroyBodyFixtures(w, fixtures) ==
    IF fixtures = <<>> THEN w
    ELSE DestroyBodyFixtures([DestroyProxies([Emit(w, "fixtureDestroyed", Head(fixtures))
                                                 EXCEPT !.fixturesForProxies = EraseAll(@, Head(fixtures))], Head(fixtures))
                                 EXCEPT !.fixtureBuffer = Free(@, Head(fixtures), BlankFixture)], Tail(fixtures))

\* WorldImpl::Destroy(BodyID) after the body's contacts were destroyed.
DestroyBodyRest(w, id) ==
    IF ~Ok(w) THEN w
    ELSE RemoveBody([DestroyBodyFixtures(w, BodyAt(w, id).fixtures) EXCEPT !.bodyBuffer.data[id + 1].fixtures = <<>>], id)

\* WorldImpl::Destroy(BodyID) after the body's joints were destroyed.
DestroyBodyContacts(w, id) ==
    IF ~Ok(w) THEN w ELSE DestroyBodyRest(DestroyFrom(w, id, ContactIds(BodyAt(w, id).contacts)), id)

\* WorldImpl::Destroy(BodyID) after the lock check.
DestroyBodyImpl(w, id) == DestroyBodyContacts(DestroyBodyJoints(w, id), id)

\* Body::SetType: a static body is put to sleep with zero velocity and its
\* sweep reset; the impenetrable flag follows the type.
BodySetType(b, type) ==
    [b EXCEPT !.type = type,
              !.impenetrable = type # "Dynamic",
              !.awake = IF type = "Static" THEN FALSE ELSE @,
              !.velocity = IF type = "Static" THEN 0 ELSE @,
              !.underActiveTime = IF type = "Static" THEN 0 ELSE @,
              !.pos0 = IF type = "Static" THEN b.pos1 ELSE @]

RECURSIVE MassOf(_, _)
\* The sum in WorldImpl::ComputeMassData: the fixtures of positive density
\* count, each with a shape of unit area.
MassOf(w, fixtures) ==
    IF fixtures = <<>> THEN 0
    ELSE Plus(IF FixtureAt(w, Head(fixtures)).density > 0 THEN FixtureAt(w, Head(fixtures)).density ELSE 0, MassOf(w, Tail(fixtures)))

\* WorldImpl::ComputeMassData: mass and rotational inertia about the body
\* origin, which is also the center of mass.
ComputeMassData(w, id) == [mass |-> MassOf(w, BodyAt(w, id).fixtures), I |-> MassOf(w, BodyAt(w, id).fixtures)]

\* WorldImpl::SetMassData after the lock check: a body that is not
\* accelerable gets zero inverse mass and inertia; an accelerable one gets the
\* inverse of the given mass, or of 1 kg when that is not positive, and the
\* inverse of the given rotational inertia about its center of mass; the
\* sweep is reset to the location.
SetMassDataImpl(w, id, massData) ==
    LET b == BodyAt(w, id)
    IN  IF ~IsAccelerable(b)
        THEN WithBody(w, id, [b EXCEPT !.invMass = Zero, !.invRotI = Zero, !.pos0 = b.xf, !.pos1 = b.xf, !.alpha0 = 0, !.massDataDirty = FALSE])
        ELSE WithBody(w, id, [b EXCEPT !.invMass = Inverse(IF massData.mass > 0 THEN massData.mass ELSE 1),
                                       !.invRotI = IF massData.I > 0 THEN Inverse(massData.I) ELSE Zero,
                                       !.pos0 = b.xf, !.pos1 = b.xf, !.alpha0 = 0,
                                       !.massDataDirty = FALSE])

\* WorldImpl::SetMassData(id, ComputeMassData(id)).
ResetMassData(w, id) == SetMassDataImpl(w, id, ComputeMassData(w, id))

RECURSIVE TouchAll(_, _)
TouchAll(w, fixtures) == IF fixtures = <<>> THEN w ELSE TouchAll(InternalTouchProxies(w, Head(fixtures)), Tail(fixtures))

\* WorldImpl::SetType after the same-type return and the lock check.
SetTypeImpl(w, bodyID, type) ==
    LET w1 == ResetMassData(WithBody(w, bodyID, BodySetType(BodyAt(w, bodyID), type)), bodyID)
        w2 == DestroyFrom(w1, bodyID, ContactIds(BodyAt(w1, bodyID).contacts))
    IN  IF ~Ok(w2) THEN w2
        ELSE IF type = "Static" THEN [w2 EXCEPT !.bodiesForProxies = Append(@, bodyID)]
        ELSE TouchAll(WithBody(w2, bodyID, SetAwake(BodyAt(w2, bodyID))), BodyAt(w2, bodyID).fixtures)

(***************************************************************************)
(* Islands and the regular solve.  An island under construction is the     *)
(* world, the island's bodies, contacts and joints, and the body stack.    *)
(***************************************************************************)
RECURSIVE AddContactsToIslandUntouching(_, _, _)
\* AddContactsToIsland taking the enabled non-sensor contacts whether or not
\* they are touching.
AddContactsToIslandUntouching(s, list, bodyID) ==
    IF list = <<>> THEN s
    ELSE LET contactID == Head(list).id
             contact == ContactAt(s.w, contactID)
             other == IF bodyID # contact.bodyA THEN contact.bodyA ELSE contact.bodyB
             s1 == [s EXCEPT !.contacts = Append(@, contactID), !.w.islandedContacts[contactID + 1] = TRUE]
             s2 == IF ~s1.w.islandedBodies[other + 1] THEN [s1 EXCEPT !.w.islandedBodies[other + 1] = TRUE, !.stack = Append(@, other)] ELSE s1
         IN  IF ~s.w.islandedContacts[contactID + 1] /\ contact.enabled /\ ~contact.sensor
             THEN AddContactsToIslandUntouching(s2, Tail(list), bodyID)
             ELSE AddContactsToIslandUntouching(s, Tail(list), bodyID)

RECURSIVE AddContactsToIslandDisabled(_, _, _)
\* AddContactsToIsland taking the touching non-sensor contacts whether or not
\* they are enabled.
AddContactsToIslandDisabled(s, list, bodyID) ==
    IF list = <<>> THEN s
    ELSE LET contactID == Head(list).id
             contact == ContactAt(s.w, contactID)
             other == IF bodyID # contact.bodyA THEN contact.bodyA ELSE contact.bodyB
             s1 == [s EXCEPT !.contacts = Append(@, contactID), !.w.islandedContacts[contactID + 1] = TRUE]
             s2 == IF ~s1.w.islandedBodies[other + 1] THEN [s1 EXCEPT !.w.islandedBodies[other + 1] = TRUE, !.stack = Append(@, other)] ELSE s1
         IN  IF ~s.w.islandedContacts[contactID + 1] /\ contact.touching /\ ~contact.sensor
             THEN AddContactsToIslandDisabled(s2, Tail(list), bodyID)
             ELSE AddContactsToIslandDisabled(s, Tail(list), bodyID)

RECURSIVE AddContactsToIsland(_, _, _)
\* WorldImpl::AddContactsToIsland: the enabled, touching, non-sensor contacts
\* not yet in an island join it and push their other body.
AddContactsToIsland(s, list, bodyID) ==
    IF list = <<>> THEN s
    ELSE LET contactID == Head(list).id
             contact == ContactAt(s.w, contactID)
             other == IF bodyID # contact.bodyA THEN contact.bodyA ELSE contact.bodyB
             s1 == [s EXCEPT !.contacts = Append(@, contactID), !.w.islandedContacts[contactID + 1] = TRUE]
             s2 == IF ~s1.w.islandedBodies[other + 1] THEN [s1 EXCEPT !.w.islandedBodies[other + 1] = TRUE, !.stack = Append(@, other)] ELSE s1
         IN  IF ~s.w.islandedContacts[contactID + 1] /\ contact.enabled /\ contact.touching /\ ~contact.sensor
             THEN AddContactsToIsland(s2, Tail(list), bodyID)
             ELSE AddContactsToIsland(s, Tail(list), bodyID)

RECURSIVE AddJointsToIsland(_, _)
\* WorldImpl::AddJointsToIsland: a joint joins the island when it has no other
\* body or the other body is enabled.
AddJointsToIsland(s, list) ==
    IF list = <<>> \/ ~Ok(s.w) THEN s
    ELSE LET jointID == Head(list).id
             otherID == Head(list).other
             s1 == [s EXCEPT !.joints = Append(@, jointID), !.w.islandedJoints[jointID + 1] = TRUE]
             s2 == IF otherID # InvalidBodyID /\ ~s1.w.islandedBodies[otherID + 1] THEN [s1 EXCEPT !.w.islandedBodies[otherID + 1] = TRUE, !.stack = Append(@, otherID)] ELSE s1
         IN  IF ~(jointID + 1 \in 1 .. Len(s.w.islandedJoints)) THEN [s EXCEPT !.w = Fault(@, "ub")]
             ELSE IF s.w.islandedJoints[jointID + 1] THEN AddJointsToIsland(s, Tail(list))
             ELSE IF otherID = InvalidBodyID \/ BodyAt(s.w, otherID).enabled THEN AddJointsToIsland(s2, Tail(list))
             ELSE AddJointsToIsland(s, Tail(list))

RECURSIVE AddToIslandStackAwaking(_)
\* AddToIsland waking every body it takes off the stack, static ones too.
AddToIslandStackAwaking(s) ==
    IF s.stack = <<>> \/ ~Ok(s.w) THEN s
    ELSE LET bodyID == Last(s.stack)
             popped == [s EXCEPT !.stack = Front(@), !.bodies = Append(@, bodyID)]
             awake == [popped EXCEPT !.w.bodyBuffer.data[bodyID + 1].awake = TRUE]
             withContacts == AddContactsToIsland(awake, BodyAt(awake.w, bodyID).contacts, bodyID)
             withJoints == AddJointsToIsland(withContacts, BodyAt(withContacts.w, bodyID).joints)
         IN  IF ~IsSpeedable(BodyAt(s.w, bodyID)) THEN AddToIslandStackAwaking(awake)
             ELSE AddToIslandStackAwaking(withJoints)

RECURSIVE AddToIslandStackThrough(_)
\* AddToIsland going on through the contacts and joints of every body it takes
\* off the stack, static ones too.
AddToIslandStackThrough(s) ==
    IF s.stack = <<>> \/ ~Ok(s.w) THEN s
    ELSE LET bodyID == Last(s.stack)
             popped == [s EXCEPT !.stack = Front(@), !.bodies = Append(@, bodyID)]
             awake == [popped EXCEPT !.w.bodyBuffer.data[bodyID + 1].awake = IF IsSpeedable(BodyAt(s.w, bodyID)) THEN TRUE ELSE @]
             withContacts == AddContactsToIsland(awake, BodyAt(awake.w, bodyID).contacts, bodyID)
             withJoints == AddJointsToIsland(withContacts, BodyAt(withContacts.w, bodyID).joints)
         IN  AddToIslandStackThrough(withJoints)

RECURSIVE AddToIslandStack(_)
\* WorldImpl::AddToIsland(island, stack, ...): depth-first from the stack;
\* static bodies join the island but do not propagate it.
AddToIslandStack(s) ==
    IF s.stack = <<>> \/ ~Ok(s.w) THEN s
    ELSE LET bodyID == Last(s.stack)
             popped == [s EXCEPT !.stack = Front(@), !.bodies = Append(@, bodyID)]
             awake == [popped EXCEPT !.w.bodyBuffer.data[bodyID + 1].awake = TRUE]
             withContacts == AddContactsToIsland(awake, BodyAt(awake.w, bodyID).contacts, bodyID)
             withJoints == AddJointsToIsland(withContacts, BodyAt(withContacts.w, bodyID).joints)
         IN  IF ~IsSpeedable(BodyAt(s.w, bodyID)) THEN AddToIslandStack(popped)
             ELSE AddToIslandStack(withJoints)

\* WorldImpl::AddToIsland(island, seedID, ...).
AddToIsland(w, seedID) ==
    AddToIslandStack([w |-> [w EXCEPT !.islandedBodies[seedID + 1] = TRUE], bodies |-> <<>>, contacts |-> <<>>, joints |-> <<>>, stack |-> <<seedID>>])

RECURSIVE RemoveAllFromIslanded(_, _)
\* The flag of every body of the island is cleared, speedable or not.
RemoveAllFromIslanded(w, bodies) ==
    IF bodies = <<>> THEN w
    ELSE RemoveAllFromIslanded([w EXCEPT !.islandedBodies[Head(bodies) + 1] = FALSE], Tail(bodies))

RECURSIVE RemoveUnspeedablesFromIslanded(_, _)
\* WorldImpl::RemoveUnspeedablesFromIslanded: the non-speedable bodies of the
\* island just built may take part in other islands.
RemoveUnspeedablesFromIslanded(w, bodies) ==
    IF bodies = <<>> THEN w
    ELSE RemoveUnspeedablesFromIslanded(IF ~IsSpeedable(BodyAt(w, Head(bodies))) THEN [w EXCEPT !.islandedBodies[Head(bodies) + 1] = FALSE] ELSE w, Tail(bodies))

\* The bodies of the island's contacts: the ones the contact constraints act on.
Constrained(w, contacts) == UNION {{ContactAt(w, id).bodyA, ContactAt(w, id).bodyB} : id \in Range(contacts)}

\* The velocity and position solvers: an accelerable body under a contact
\* constraint comes to rest, every other body keeps its velocity, and the
\* positions are integrated over the time h.
SolvedVelocity(w, id, contacts) == IF IsAccelerable(BodyAt(w, id)) /\ id \in Constrained(w, contacts) THEN 0 ELSE BodyAt(w, id).velocity

RECURSIVE MoveBodies(_, _, _, _)
\* JustSetVelocity and UpdateBody for each island body: a body whose
\* transformation changed has its contacts flagged for updating.
MoveBodies(w, bodies, contacts, h) ==
    IF bodies = <<>> THEN w
    ELSE LET id == Head(bodies)
             b == BodyAt(w, id)
             v == SolvedVelocity(w, id, contacts)
             pos == b.pos1 + (h * v)
             moved == WithBody(w, id, [b EXCEPT !.velocity = v, !.pos1 = pos, !.xf = pos])
         IN  MoveBodies(IF pos # b.xf THEN FlagForUpdating(moved, id) ELSE moved, Tail(bodies), contacts, h)

RECURSIVE Report(_, _)
\* Report(listener, contacts, ...): post-solve for every island contact.
Report(w, contacts) == IF contacts = <<>> THEN w ELSE Report(Emit(w, "postsolve", Head(contacts)), Tail(contacts))

\* GetUnderActiveTime(b, conf).
GetUnderActiveTime(b, cf) == IF b.allowSleep /\ b.velocity = 0 THEN b.underActiveTime + cf.deltaTime ELSE 0

RECURSIVE UpdateUnderActiveTimes(_, _, _)
UpdateUnderActiveTimes(w, bodies, cf) ==
    IF bodies = <<>> THEN w
    ELSE LET b == BodyAt(w, Head(bodies))
         IN  UpdateUnderActiveTimes(IF IsSpeedable(b) THEN WithBody(w, Head(bodies), [b EXCEPT !.underActiveTime = GetUnderActiveTime(b, cf)]) ELSE w, Tail(bodies), cf)

\* Every speedable island body has been under-active long enough.
CanSleep(w, bodies, cf) == \A id \in Range(bodies) : IsSpeedable(BodyAt(w, id)) => BodyAt(w, id).underActiveTime >= cf.minStillTimeToSleep

\* The position solve converges in its first iteration, if it has one.
Solved(cf) == cf.regPositionIterations > 0

\* Unawaken(body): an awake body that may sleep is put to sleep.
Unawaken(b) == IF b.awake /\ b.allowSleep THEN [b EXCEPT !.awake = FALSE, !.velocity = 0] ELSE b

RECURSIVE Sleepem(_, _)
Sleepem(w, bodies) == IF bodies = <<>> THEN w ELSE Sleepem(WithBody(w, Head(bodies), Unawaken(BodyAt(w, Head(bodies)))), Tail(bodies))

\* The island's record gets the under-active times and the moving bodies
\* the solve left in w, and the bodies that are asleep in slept.
Settled(slept, w, bodies) ==
    [slept EXCEPT !.islands[Len(w.islands)].times = [i \in 1 .. Len(bodies) |-> BodyAt(w, bodies[i]).underActiveTime],
                  !.islands[Len(w.islands)].moving = {id \in Range(bodies) : BodyAt(w, id).velocity # 0},
                  !.islands[Len(w.islands)].asleep = {id \in Range(bodies) : ~BodyAt(slept, id).awake}]

\* The end of WorldImpl::SolveRegIslandViaGS: an island whose bodies have all
\* been still long enough is put to sleep when the position solve converged.
Rest(w, bodies, cf) == Settled(IF CanSleep(w, bodies, cf) /\ Solved(cf) THEN Sleepem(w, bodies) ELSE w, w, bodies)

RECURSIVE SetPositions0(_, _)
\* Body::SetPosition0(GetPosition1(body)) for each island body.
SetPositions0(w, bodies) == IF bodies = <<>> THEN w ELSE SetPositions0([w EXCEPT !.bodyBuffer.data[Head(bodies) + 1].pos0 = BodyAt(w, Head(bodies)).pos1], Tail(bodies))

\* WorldImpl::SolveRegIslandViaGS: positions and velocities of the island's
\* bodies are solved, post-solve is reported for the island's contacts, and
\* the island is put to sleep when all its bodies have been still long enough.
SolveRegIslandViaGS(w, island, cf) ==
    LET w1 == SetPositions0(w, island.bodies)
        w2 == MoveBodies(w1, island.bodies, island.contacts, cf.deltaTime)
        w3 == Report(w2, island.contacts)
        w4 == UpdateUnderActiveTimes(w3, island.bodies, cf)
    IN  Rest(w4, island.bodies, cf)

\* The island just built is recorded.
Built(w, island) ==
    [w EXCEPT !.islands = Append(@, [bodies |-> island.bodies, contacts |-> island.contacts, joints |-> island.joints,
                                     times |-> <<>>, moving |-> {}, asleep |-> {}])]

RECURSIVE SolveRegBodies(_, _, _)
\* The island loop of WorldImpl::SolveReg.
SolveRegBodies(w, bodies, cf) ==
    IF bodies = <<>> \/ ~Ok(w) THEN w
    ELSE LET b == Head(bodies)
             body == BodyAt(w, b)
             island == AddToIsland(w, b)
             w1 == RemoveUnspeedablesFromIslanded(island.w, island.bodies)
         IN  IF ~w.islandedBodies[b + 1] /\ body.awake /\ body.enabled
             THEN SolveRegBodies(IF Ok(island.w) THEN SolveRegIslandViaGS(Built(w1, island), island, cf) ELSE island.w, Tail(bodies), cf)
             ELSE SolveRegBodies(w, Tail(bodies), cf)

RECURSIVE SynchronizeIslanded(_, _, _)
\* The proxies of the speedable bodies that were in an island are synchronized.
SynchronizeIslanded(w, bodies, cf) ==
    IF bodies = <<>> THEN w
    ELSE LET b == Head(bodies)
             body == BodyAt(w, b)
         IN  SynchronizeIslanded(IF w.islandedBodies[b + 1] /\ IsSpeedable(body) THEN Synchronize(w, b, body.pos0, body.xf, cf) ELSE w, Tail(bodies), cf)

\* WorldImpl::SolveReg.
SolveReg(w, cf) ==
    LET cleared == [w EXCEPT !.islands = <<>>,
                             !.islandedBodies = [i \in 1 .. Size(w.bodyBuffer) |-> FALSE],
                             !.islandedContacts = [i \in 1 .. Size(w.contactBuffer) |-> FALSE],
                             !.islandedJoints = [i \in 1 .. Size(w.jointBuffer) |-> FALSE]]
        solved == SolveRegBodies(cleared, w.bodies, cf)
    IN  IF ~Ok(solved) THEN solved ELSE FindNewContacts(SynchronizeIslanded(solved, solved.bodies, cf))

(***************************************************************************)
(* The TOI solve.  Times of impact are 0 (impact at the start of the       *)
(* sweep) and 1 (no impact within the step).  The contacts for which the   *)
(* time-of-impact computation reports an impact are an input of the step.  *)
(***************************************************************************)
\* std::vector<bool>::operator[] is not range checked.
OutOfRange(flags, id) == ~(id + 1 \in 1 .. Len(flags))

\* Body::Advance0(alpha): the start of the sweep is moved to time alpha.
Advance0(b, alpha) == [b EXCEPT !.pos0 = @ + (alpha * (b.pos1 - @)), !.alpha0 = alpha]

\* Body::Advance(toi): the body is placed where its sweep is at time toi.
Advance(b, toi) == LET a == Advance0(b, toi) IN [a EXCEPT !.pos1 = a.pos0, !.xf = a.pos0]

\* Body::Restore(sweep).
Restore(b, backup) == [b EXCEPT !.pos0 = backup.pos0, !.pos1 = backup.pos1, !.alpha0 = backup.alpha0, !.xf = backup.pos1]

RECURSIVE UnsetFlags(_, _)
\* Unset(islanded, elements).
UnsetFlags(flags, ids) == IF ids = <<>> THEN flags ELSE UnsetFlags([flags EXCEPT ![Head(ids) + 1] = FALSE], Tail(ids))

RECURSIVE UnsetTois(_, _, _)
\* ResetContactsForSolveTOI: the contacts' TOI is unset, and for the world's
\* contact list the TOI count is zeroed too.
UnsetTois(w, ids, zeroCount) ==
    IF ids = <<>> THEN w
    ELSE UnsetTois([w EXCEPT !.contactBuffer.data[Head(ids) + 1].toi = NoToi,
                             !.contactBuffer.data[Head(ids) + 1].toiCount = IF zeroCount THEN 0 ELSE @], Tail(ids), zeroCount)

RECURSIVE ResetBodiesForSolveTOI(_, _)
ResetBodiesForSolveTOI(w, bodies) == IF bodies = <<>> THEN w ELSE ResetBodiesForSolveTOI([w EXCEPT !.bodyBuffer.data[Head(bodies) + 1].alpha0 = 0], Tail(bodies))

RECURSIVE UpdateContactTOIsLate(_, _, _, _)
\* UpdateContactTOIs giving a TOI to a contact that has reached the sub-step
\* limit and leaving out only those beyond it.
UpdateContactTOIsLate(w, list, cf, hits) ==
    IF list = <<>> THEN w
    ELSE LET id == Head(list).id
             c == ContactAt(w, id)
             alpha0 == Max(BodyAt(w, c.bodyA).alpha0, BodyAt(w, c.bodyB).alpha0)
             w1 == WithBody(w, c.bodyA, Advance0(BodyAt(w, c.bodyA), alpha0))
             w2 == WithBody(w1, c.bodyB, Advance0(BodyAt(w1, c.bodyB), alpha0))
             toi == IF id \in hits THEN alpha0 ELSE 1
         IN  IF c.toi # NoToi \/ ~c.enabled \/ c.sensor \/ ~c.active \/ ~c.impenetrable \/ c.toiCount > cf.maxSubSteps
             THEN UpdateContactTOIsLate(w, Tail(list), cf, hits)
             ELSE UpdateContactTOIsLate([w2 EXCEPT !.contactBuffer.data[id + 1].toi = toi], Tail(list), cf, hits)

RECURSIVE UpdateContactTOIs(_, _, _, _)
\* WorldImpl::UpdateContactTOIs: an enabled, non-sensor, active, impenetrable
\* contact without a valid TOI and below the sub-step limit gets one.
UpdateContactTOIs(w, list, cf, hits) ==
    IF list = <<>> THEN w
    ELSE LET id == Head(list).id
             c == ContactAt(w, id)
             alpha0 == Max(BodyAt(w, c.bodyA).alpha0, BodyAt(w, c.bodyB).alpha0)
             w1 == WithBody(w, c.bodyA, Advance0(BodyAt(w, c.bodyA), alpha0))
             w2 == WithBody(w1, c.bodyB, Advance0(BodyAt(w1, c.bodyB), alpha0))
             toi == IF id \in hits THEN alpha0 ELSE 1
         IN  IF c.toi # NoToi \/ ~c.enabled \/ c.sensor \/ ~c.active \/ ~c.impenetrable \/ c.toiCount >= cf.maxSubSteps
             THEN UpdateContactTOIs(w, Tail(list), cf, hits)
             ELSE UpdateContactTOIs([w2 EXCEPT !.contactBuffer.data[id + 1].toi = toi], Tail(list), cf, hits)

\* The positions in the contact list of the contacts with a valid TOI below 1.
ValidTois(w) == {i \in 1 .. Len(w.contacts) : ContactAt(w, w.contacts[i].id).toi # NoToi /\ ContactAt(w, w.contacts[i].id).toi < 1}

\* WorldImpl::GetSoonestContact: the first contact with the least valid TOI below 1.
SoonestOf(w, valid) ==
    IF valid = {} THEN InvalidContactID
    ELSE w.contacts[CHOOSE i \in valid : \A j \in valid :
                        \/ ContactAt(w, w.contacts[i].id).toi < ContactAt(w, w.contacts[j].id).toi
                        \/ ContactAt(w, w.contacts[i].id).toi = ContactAt(w, w.contacts[j].id).toi /\ i <= j].id

GetSoonestContact(w) == SoonestOf(w, ValidTois(w))

\* Body::Advance(toi) followed by FlagForUpdating of the body's contacts.
AdvanceBody(w, id, toi) == FlagForUpdating(WithBody(w, id, Advance(BodyAt(w, id), toi)), id)

\* contact.SetEnabled() followed by Update if the contact needs updating.
UpdateEnabled(w, contactID) ==
    IF ContactAt(w, contactID).needsUpdating
    THEN Update([w EXCEPT !.contactBuffer.data[contactID + 1].enabled = TRUE], contactID)
    ELSE [w EXCEPT !.contactBuffer.data[contactID + 1].enabled = TRUE]

\* The end of one iteration of WorldImpl::ProcessContactsForTOI: the other
\* body is restored if the updated contact is disabled or not touching,
\* otherwise the contact and the other body join the island.
ProcessedContact(s, updated, contactID, otherId) ==
    LET other == BodyAt(s.w, otherId)
        otherIslanded == s.w.islandedBodies[otherId + 1]
        after == ContactAt(updated, contactID)
    IN  IF ~Ok(updated) THEN [s EXCEPT !.w = updated]
        ELSE IF ~after.enabled \/ ~after.touching
        THEN [s EXCEPT !.w = WithBody(updated, otherId, Restore(BodyAt(updated, otherId), other))]
        ELSE IF otherIslanded
        THEN [s EXCEPT !.w = [updated EXCEPT !.islandedContacts[contactID + 1] = TRUE],
                       !.contacts = Append(@, contactID)]
        ELSE [s EXCEPT !.w = [updated EXCEPT !.islandedContacts[contactID + 1] = TRUE,
                                             !.bodyBuffer.data[otherId + 1].awake = IF IsSpeedable(other) THEN TRUE ELSE @,
                                             !.islandedBodies[otherId + 1] = TRUE],
                       !.contacts = Append(@, contactID),
                       !.bodies = Append(@, otherId)]

RECURSIVE ProcessContactsForTOI(_, _, _, _)
\* WorldImpl::ProcessContactsForTOI: the non-sensor contacts of the body with
\* an impenetrable end are updated at the TOI; those enabled and touching
\* join the island with their other body.
ProcessContactsForTOI(s, list, id, toi) ==
    IF list = <<>> \/ ~Ok(s.w) THEN s
    ELSE LET contactID == Head(list).id
             contact == ContactAt(s.w, contactID)
             otherId == IF contact.bodyA # id THEN contact.bodyA ELSE contact.bodyB
         IN  IF OutOfRange(s.w.islandedContacts, contactID) THEN [s EXCEPT !.w = Fault(@, "ub")]
             ELSE IF s.w.islandedContacts[contactID + 1] \/ contact.sensor
                     \/ ~(BodyAt(s.w, id).impenetrable \/ BodyAt(s.w, otherId).impenetrable)
             THEN ProcessContactsForTOI(s, Tail(list), id, toi)
             ELSE ProcessContactsForTOI(
                      ProcessedContact(s, UpdateEnabled(IF s.w.islandedBodies[otherId + 1] THEN s.w
                                                        ELSE AdvanceBody(s.w, otherId, toi), contactID),
                                       contactID, otherId),
                      Tail(list), id, toi)

\* WorldImpl::SolveToiViaGS: the island is solved for the rest of the step
\* and post-solve is reported for its contacts.
SolveToiViaGS(w, island, cf) == Report(MoveBodies(SetPositions0(w, island.bodies), island.bodies, island.contacts, cf.deltaTime), island.contacts)

\* The contacts of an accelerable body of the TOI contact are processed.
ProcessBody(s, bodyID, toi) ==
    IF IsAccelerable(BodyAt(s.w, bodyID)) THEN ProcessContactsForTOI(s, BodyAt(s.w, bodyID).contacts, bodyID, toi) ELSE s

\* The island of the TOI contact is solved.
SolveToiIsland(s, cf) ==
    IF ~Ok(s.w) THEN s.w ELSE SolveToiViaGS(RemoveUnspeedablesFromIslanded(s.w, s.bodies), s, cf)

\* SolveToi(ContactID, conf) leaving the bodies at the TOI when the contact
\* is disabled or not touching there.
SolveToiUpdatedUnrestored(w, updated, contactID, cf) ==
    LET contact == ContactAt(w, contactID)
        bodyIdA == contact.bodyA
        bodyIdB == contact.bodyB
        backupA == BodyAt(w, bodyIdA)
        backupB == BodyAt(w, bodyIdB)
        after == ContactAt(updated, contactID)
    IN  IF ~Ok(updated) THEN updated
        ELSE IF ~after.enabled \/ ~after.touching
        THEN [updated EXCEPT !.contactBuffer.data[contactID + 1].toi = NoToi,
                             !.contactBuffer.data[contactID + 1].toiCount = @ + 1,
                             !.contactBuffer.data[contactID + 1].enabled = FALSE]
        ELSE SolveToiIsland(
                 ProcessBody(
                     ProcessBody([w |-> [updated EXCEPT !.contactBuffer.data[contactID + 1].toi = NoToi,
                                                        !.contactBuffer.data[contactID + 1].toiCount = @ + 1,
                                                        !.bodyBuffer.data[bodyIdA + 1].awake = IF IsSpeedable(backupA) THEN TRUE ELSE @,
                                                        !.bodyBuffer.data[bodyIdB + 1].awake = IF IsSpeedable(backupB) THEN TRUE ELSE @,
                                                        !.islandedBodies[bodyIdA + 1] = TRUE,
                                                        !.islandedBodies[bodyIdB + 1] = TRUE,
                                                        !.islandedContacts[contactID + 1] = TRUE],
                                  bodies |-> <<bodyIdA, bodyIdB>>, contacts |-> <<contactID>>, joints |-> <<>>, stack |-> <<>>],
                                 bodyIdA, contact.toi),
                     bodyIdB, contact.toi),
                 cf)

\* WorldImpl::SolveToi(ContactID, conf) after the contact was updated at the
\* TOI: if it is then disabled or not touching the bodies are restored,
\* otherwise the island of the two bodies is built and solved.
SolveToiUpdated(w, updated, contactID, cf) ==
    LET contact == ContactAt(w, contactID)
        bodyIdA == contact.bodyA
        bodyIdB == contact.bodyB
        backupA == BodyAt(w, bodyIdA)
        backupB == BodyAt(w, bodyIdB)
        after == ContactAt(updated, contactID)
    IN  IF ~Ok(updated) THEN updated
        ELSE IF ~after.enabled \/ ~after.touching
        THEN [updated EXCEPT !.contactBuffer.data[contactID + 1].toi = NoToi,
                             !.contactBuffer.data[contactID + 1].toiCount = @ + 1,
                             !.contactBuffer.data[contactID + 1].enabled = FALSE,
                             !.bodyBuffer.data[bodyIdA + 1] = Restore(@, backupA),
                             !.bodyBuffer.data[bodyIdB + 1] = Restore(@, backupB)]
        ELSE SolveToiIsland(
                 ProcessBody(
                     ProcessBody([w |-> [updated EXCEPT !.contactBuffer.data[contactID + 1].toi = NoToi,
                                                        !.contactBuffer.data[contactID + 1].toiCount = @ + 1,
                                                        !.bodyBuffer.data[bodyIdA + 1].awake = IF IsSpeedable(backupA) THEN TRUE ELSE @,
                                                        !.bodyBuffer.data[bodyIdB + 1].awake = IF IsSpeedable(backupB) THEN TRUE ELSE @,
                                                        !.islandedBodies[bodyIdA + 1] = TRUE,
                                                        !.islandedBodies[bodyIdB + 1] = TRUE,
                                                        !.islandedContacts[contactID + 1] = TRUE],
                                  bodies |-> <<bodyIdA, bodyIdB>>, contacts |-> <<contactID>>, joints |-> <<>>, stack |-> <<>>],
                                 bodyIdA, contact.toi),
                     bodyIdB, contact.toi),
                 cf)

\* WorldImpl::SolveToi(ContactID, conf): the two bodies are advanced to the
\* TOI and the contact is updated there.
SolveToiContact(w, contactID, cf) ==
    SolveToiUpdated(w, UpdateEnabled(AdvanceBody(AdvanceBody(w, ContactAt(w, contactID).bodyA, ContactAt(w, contactID).toi),
                                                 ContactAt(w, contactID).bodyB, ContactAt(w, contactID).toi), contactID),
                    contactID, cf)

\* One body of the body loop of WorldImpl::SolveToi: an islanded body leaves
\* the island and, if accelerable, has its proxies synchronized and its
\* contacts' TOI and island flags reset.
ResetIslandedBody(w, synced, b) ==
    LET ids == ContactIds(BodyAt(w, b).contacts)
    IN  IF ~w.islandedBodies[b + 1] THEN w
        ELSE IF ~IsAccelerable(BodyAt(w, b)) THEN [w EXCEPT !.islandedBodies[b + 1] = FALSE]
        ELSE IF \E id \in Range(ids) : OutOfRange(w.islandedContacts, id) THEN Fault(synced, "ub")
        ELSE [synced EXCEPT !.islandedContacts = UnsetFlags(@, ids)]

RECURSIVE ResetIslanded(_, _, _)
\* The body loop of WorldImpl::SolveToi.
ResetIslanded(w, bodies, cf) ==
    IF bodies = <<>> \/ ~Ok(w) THEN w
    ELSE IF OutOfRange(w.islandedBodies, Head(bodies)) THEN Fault(w, "ub")
    ELSE ResetIslanded(
             ResetIslandedBody(w, UnsetTois(Synchronize([w EXCEPT !.islandedBodies[Head(bodies) + 1] = FALSE], Head(bodies),
                                                        BodyAt(w, Head(bodies)).pos0, BodyAt(w, Head(bodies)).xf, cf),
                                            ContactIds(BodyAt(w, Head(bodies)).contacts), FALSE),
                               Head(bodies)),
             Tail(bodies), cf)

RECURSIVE SolveToiLoop(_, _, _)
\* The end of one iteration of the loop of WorldImpl::SolveToi.  The loop
\* does not end when an iteration changes nothing.
SolveToiIteratedOn(w, w3, cf, hits) ==
    IF ~Ok(w3) THEN w3
    ELSE IF w3 = w THEN Fault(w3, "hang")
    ELSE SolveToiLoop(w3, cf, hits)

\* The end of one iteration of the loop of WorldImpl::SolveToi: with
\* sub-stepping the loop is left with the step not complete.
SolveToiIterated(w, w3, cf, hits) ==
    IF ~Ok(w3) THEN w3
    ELSE IF w3.flags.subStepping THEN [w3 EXCEPT !.flags.stepComplete = FALSE]
    ELSE IF w3 = w THEN Fault(w3, "hang")
    ELSE SolveToiLoop(w3, cf, hits)

\* One iteration of the loop of WorldImpl::SolveToi on the soonest contact.
SolveToiSoonest(w, w1, contactID, cf, hits) ==
    IF contactID = InvalidContactID THEN [w1 EXCEPT !.flags.stepComplete = TRUE]
    ELSE IF OutOfRange(w1.islandedContacts, contactID) THEN Fault(w1, "ub")
    ELSE SolveToiIterated(w, FindNewContacts(ResetIslanded(IF w1.islandedContacts[contactID + 1] THEN w1
                                                           ELSE SolveToiContact(w1, contactID, cf), w1.bodies, cf)), cf, hits)

\* The loop of WorldImpl::SolveToi after the contacts' TOI were updated.
SolveToiFrom(w, w1, cf, hits) == SolveToiSoonest(w, w1, GetSoonestContact(w1), cf, hits)

\* The loop of WorldImpl::SolveToi.
SolveToiLoop(w, cf, hits) == IF ~Ok(w) THEN w ELSE SolveToiFrom(w, UpdateContactTOIs(w, w.contacts, cf, hits), cf, hits)

\* WorldImpl::SolveToi(conf).
SolveToi(w, cf, hits) ==
    LET ids == ContactIds(w.contacts)
    IN  IF ~Ok(w) THEN w
        ELSE IF ~w.flags.stepComplete THEN SolveToiLoop(w, cf, hits)
        ELSE IF (\E b \in Range(w.bodies) : OutOfRange(w.islandedBodies, b)) \/ (\E id \in Range(ids) : OutOfRange(w.islandedContacts, id))
        THEN Fault(w, "ub")
        ELSE SolveToiLoop([UnsetTois(ResetBodiesForSolveTOI(w, w.bodies), ids, TRUE)
                              EXCEPT !.islandedBodies = UnsetFlags(@, w.bodies), !.islandedContacts = UnsetFlags(@, ids)], cf, hits)

(***************************************************************************)
(* The world's operations.  A call is made by the user between steps, or   *)
(* by a listener the running step has just invoked.  Identifiers passed    *)
(* for bodies and fixtures are those of live entities.                     *)
(***************************************************************************)
CanCall == fault = "none" /\ ops < MaxOps /\ (pc = "idle" \/ log # <<>>)

\* The world as a call finds it; the events of the previous call are forgotten.
Entry == [World EXCEPT !.log = IF pc = "idle" THEN <<>> ELSE log]

Call(op, r, w) ==
    /\ ops' = ops + 1
    /\ lastOp' = op
    /\ result' = r
    /\ Commit(w)
    /\ UNCHANGED <<pc, conf>>

\* The operation throws before it has changed anything.
Throw(op, r) == Call(op, r, World)

Return(op, w) == Call(op, IF Ok(w) THEN "ok" ELSE w.fault, w)

IsLocked == m_flags.locked

LiveFixtures == UNION {Range(At(m_bodyBuffer, b).fixtures) : b \in Range(m_bodies)}

\* WorldImpl::CreateBody.
CreateBody(def) ==
    /\ CanCall
    /\ IF IsLocked THEN Throw("CreateBody", "WrongState")
       ELSE IF Len(m_bodies) >= MaxBodies THEN Throw("CreateBody", "LengthError")
       ELSE IF AllocFaults(m_bodyBuffer) THEN Return("CreateBody", Fault(Entry, "ub"))
       ELSE Return("CreateBody", [Entry EXCEPT !.bodyBuffer = Allocate(@, NewBody(def)), !.bodies = Append(@, AllocIndex(m_bodyBuffer))])

\* Body::SetVelocity on a body of the world; the call is kept as the result.
SetVelocity(id, velocity) ==
    /\ CanCall
    /\ Has(m_bodies, id)
    /\ Call("SetVelocity", <<id, velocity>>, WithBody(Entry, id, BodySetVelocity(BodyAt(Entry, id), velocity)))

\* Body::SetAcceleration on a body of the world; the call is kept as the result.
SetAcceleration(id, linear) ==
    /\ CanCall
    /\ Has(m_bodies, id)
    /\ Call("SetAcceleration", <<id, linear>>, WithBody(Entry, id, BodySetAcceleration(BodyAt(Entry, id), linear)))

\* WorldImpl::Destroy(BodyID).
DestroyBody(id) ==
    /\ CanCall
    /\ Has(m_bodies, id)
    /\ IF IsLocked THEN Throw("DestroyBody", "WrongState")
       ELSE Return("DestroyBody", DestroyBodyImpl(Entry, id))

\* WorldImpl::CreateJoint.
CreateJoint(def) ==
    /\ CanCall
    /\ IF IsLocked THEN Throw("CreateJoint", "WrongState")
       ELSE IF Len(m_joints) >= MaxJoints THEN Throw("CreateJoint", "LengthError")
       ELSE IF AllocFaults(m_jointBuffer) THEN Return("CreateJoint", Fault(Entry, "ub"))
       ELSE LET id == AllocIndex(m_jointBuffer)
                w == [Entry EXCEPT !.jointBuffer = Allocate(@, def), !.joints = Append(@, id)]
            IN  Return("CreateJoint", AddJoint(w, id, ~def.collideConnected))

\* WorldImpl::SetJoint for a joint of the world: the joint is removed, its
\* slot assigned and the joint added again.
SetJointImpl(w, id, def) ==
    LET removed == RemoveJoint(w, id)
    IN  IF Ok(removed) THEN AddJoint([removed EXCEPT !.jointBuffer = Put(@, id, def)], id, ~def.collideConnected) ELSE removed

\* WorldImpl::SetJoint.
SetJoint(id, def) ==
    /\ CanCall
    /\ IF IsLocked THEN Throw("SetJoint", "WrongState")
       ELSE IF ~Has(m_joints, id) THEN Return("SetJoint", Entry)
       ELSE Return("SetJoint", SetJointImpl(Entry, id, def))

\* WorldImpl::Destroy(JointID) for a joint of the world.
DestroyJointImpl(w, id) ==
    LET removed == RemoveJoint(w, id)
    IN  IF Ok(removed) THEN [removed EXCEPT !.joints = EraseFirst(@, id), !.jointBuffer = Free(@, id, BlankJoint)] ELSE removed

\* WorldImpl::Destroy(JointID).
DestroyJoint(id) ==
    /\ CanCall
    /\ IF IsLocked THEN Throw("DestroyJoint", "WrongState")
       ELSE IF ~Has(m_joints, id) THEN Return("DestroyJoint", Entry)
       ELSE Return("DestroyJoint", DestroyJointImpl(Entry, id))

\* Body::SetMassDataDirty.
SetMassDataDirty(w, bodyID) == [w EXCEPT !.bodyBuffer.data[bodyID + 1].massDataDirty = TRUE]

\* WorldImpl::CreateFixture, "Adjust mass properties if needed": a fixture of
\* positive density makes the mass data dirty, and resets it when asked to.
AdjustMass(w, bodyID, def) ==
    IF def.density > 0
    THEN IF def.resetMassData THEN ResetMassData(SetMassDataDirty(w, bodyID), bodyID) ELSE SetMassDataDirty(w, bodyID)
    ELSE w

\* WorldImpl::CreateFixture after its checks; def holds the arguments shape,
\* def and resetMassData.
CreateFixtureImpl(w, bodyID, def) ==
    AdjustMass([w EXCEPT !.fixtureBuffer = Allocate(@, NewFixture(bodyID, def)),
                         !.bodyBuffer.data[bodyID + 1].fixtures = Append(@, AllocIndex(w.fixtureBuffer)),
                         !.fixturesForProxies = IF BodyAt(w, bodyID).enabled THEN Append(@, AllocIndex(w.fixtureBuffer)) ELSE @,
                         !.flags.newFixture = TRUE], bodyID, def)

\* Destroy(FixtureID) destroying every contact of the fixture's body.
DestroyFixtureImplBodywide(w, id, resetMassData) ==
    LET bodyID == FixtureAt(w, id).body
        w1 == DestroyFrom(w, bodyID, ContactIds(BodyAt(w, bodyID).contacts))
        w2 == DestroyProxies([w1 EXCEPT !.fixturesForProxies = EraseAll(@, id)], id)
        w3 == [w2 EXCEPT !.bodyBuffer.data[bodyID + 1].fixtures = EraseFirst(@, id), !.fixtureBuffer = Free(@, id, BlankFixture)]
    IN  IF ~Ok(w1) THEN w1
        ELSE IF resetMassData THEN ResetMassData(SetMassDataDirty(w3, bodyID), bodyID)
        ELSE SetMassDataDirty(w3, bodyID)

\* WorldImpl::Destroy(FixtureID, resetMassData) after the lock check.
DestroyFixtureImpl(w, id, resetMassData) ==
    LET bodyID == FixtureAt(w, id).body
        w1 == DestroyFrom(w, bodyID, ContactsOfFixture(w, bodyID, id))
        w2 == DestroyProxies([w1 EXCEPT !.fixturesForProxies = EraseAll(@, id)], id)
        w3 == [w2 EXCEPT !.bodyBuffer.data[bodyID + 1].fixtures = EraseFirst(@, id), !.fixtureBuffer = Free(@, id, BlankFixture)]
    IN  IF ~Ok(w1) THEN w1
        ELSE IF resetMassData THEN ResetMassData(SetMassDataDirty(w3, bodyID), bodyID)
        ELSE SetMassDataDirty(w3, bodyID)

\* WorldImpl::CreateFixture: the shape is validated first, then the lock and
\* the size of the fixture allocator are checked.
CreateFixture(bodyID, def) ==
    /\ CanCall
    /\ Has(m_bodies, bodyID)
    /\ IF ~def.validShape THEN Throw("CreateFixture", "InvalidArgument")
       ELSE IF IsLocked THEN Throw("CreateFixture", "WrongState")
       ELSE IF Size(m_fixtureBuffer) >= MaxFixtures THEN Throw("CreateFixture", "LengthError")
       ELSE IF AllocFaults(m_fixtureBuffer) THEN Return("CreateFixture", Fault(Entry, "ub"))
       ELSE Return("CreateFixture", CreateFixtureImpl(Entry, bodyID, def))

\* WorldImpl::Destroy(FixtureID).
DestroyFixture(id, resetMassData) ==
    /\ CanCall
    /\ id \in LiveFixtures
    /\ IF IsLocked THEN Throw("DestroyFixture", "WrongState")
       ELSE Return("DestroyFixture", DestroyFixtureImpl(Entry, id, resetMassData))

\* WorldImpl::SetSensor: no lock check.
SetSensor(id, value) ==
    /\ CanCall
    /\ id \in LiveFixtures
    /\ LET fixture == At(m_fixtureBuffer, id)
           w1 == [Entry EXCEPT !.fixtureBuffer.data[id + 1].sensor = value, !.bodyBuffer.data[fixture.body + 1] = SetAwake(@)]
       IN  Return("SetSensor", IF fixture.sensor # value THEN FlagForUpdating(w1, fixture.body) ELSE Entry)

RECURSIVE FlagFixtureContacts(_, _, _)
FlagFixtureContacts(w, list, id) ==
    IF list = <<>> THEN w
    ELSE LET contact == ContactAt(w, Head(list).id)
         IN  FlagFixtureContacts(IF contact.fixtureA = id \/ contact.fixtureB = id THEN [w EXCEPT !.contactBuffer.data[Head(list).id + 1].needsFiltering = TRUE] ELSE w, Tail(list), id)

\* WorldImpl::Refilter after GetFixture: the fixture's contacts are flagged
\* for filtering and its proxies are queued.
RefilterImpl(w, id) == InternalTouchProxies(FlagFixtureContacts(w, BodyAt(w, FixtureAt(w, id).body).contacts, id), id)

\* WorldImpl::Refilter: no lock check.
Refilter(id) ==
    /\ CanCall
    /\ id \in LiveFixtures
    /\ Return("Refilter", RefilterImpl(Entry, id))

\* WorldImpl::SetFilterData: no lock check.
SetFilterData(id, filter) ==
    /\ CanCall
    /\ id \in LiveFixtures
    /\ Return("SetFilterData", RefilterImpl([Entry EXCEPT !.fixtureBuffer.data[id + 1].filter = filter], id))

RECURSIVE TellJoints(_, _)
TellJoints(w, joints) == IF joints = <<>> THEN w ELSE TellJoints(Emit(w, "jointDestroyed", Head(joints)), Tail(joints))

RECURSIVE TellFixtures(_, _)
TellFixtures(w, bodies) ==
    IF bodies = <<>> THEN w
    ELSE LET fixtures == BodyAt(w, Head(bodies)).fixtures
             told == [w EXCEPT !.log = @ \o [i \in 1 .. Len(fixtures) |-> <<"fixtureDestroyed", fixtures[i]>>]]
         IN  TellFixtures(told, Tail(bodies))

\* WorldImpl::Clear after the destruction listeners: every container is emptied.
Cleared(w) ==
    [w EXCEPT !.contacts = <<>>, !.joints = <<>>, !.bodies = <<>>,
              !.bodiesForProxies = <<>>, !.fixturesForProxies = <<>>, !.proxies = <<>>, !.tree = <<>>,
              !.manifoldBuffer = EmptyAllocator, !.contactBuffer = EmptyAllocator, !.jointBuffer = EmptyAllocator,
              !.fixtureBuffer = EmptyAllocator, !.bodyBuffer = EmptyAllocator,
              !.ev = [c \in ContactSlots |-> NoEvents]]

\* WorldImpl::Clear: no lock check.  Called by a listener it empties the
\* containers the running step is iterating over.
Clear ==
    /\ CanCall
    /\ LET w == Cleared(TellFixtures(TellJoints(Entry, m_joints), m_bodies))
       IN  Return("Clear", IF IsLocked THEN Fault(w, "ub") ELSE w)

\* WorldImpl::SetType: returns when the type is the current one, then checks the lock.
SetType(bodyID, type) ==
    /\ CanCall
    /\ Has(m_bodies, bodyID)
    /\ IF At(m_bodyBuffer, bodyID).type = type THEN Return("SetType", Entry)
       ELSE IF IsLocked THEN Throw("SetType", "WrongState")
       ELSE Return("SetType", SetTypeImpl(Entry, bodyID, type))

\* WorldImpl::SetEnabled: returns when the flag is the current one, then checks the lock.
SetEnabled(id, flag) ==
    /\ CanCall
    /\ Has(m_bodies, id)
    /\ IF At(m_bodyBuffer, id).enabled = flag THEN Return("SetEnabled", Entry)
       ELSE IF IsLocked THEN Throw("SetEnabled", "WrongState")
       ELSE Return("SetEnabled", [Entry EXCEPT !.bodyBuffer.data[id + 1].enabled = flag, !.fixturesForProxies = @ \o At(m_bodyBuffer, id).fixtures])

\* MassData of 1 kg.
PlainMassData == [mass |-> 1, I |-> 1]

\* WorldImpl::SetMassData.
SetMassData(id, massData) ==
    /\ CanCall
    /\ Has(m_bodies, id)
    /\ IF IsLocked THEN Throw("SetMassData", "WrongState")
       ELSE Return("SetMassData", SetMassDataImpl(Entry, id, massData))

\* SetTransformation without its lock check.
SetTransformationUnchecked(id, xfm) ==
    /\ CanCall
    /\ Has(m_bodies, id)
    /\ Return("SetTransformation", [FlagForUpdating(Entry, id) EXCEPT !.bodyBuffer.data[id + 1].xf = xfm, !.bodyBuffer.data[id + 1].pos0 = xfm,
                                                                      !.bodyBuffer.data[id + 1].pos1 = xfm, !.bodyBuffer.data[id + 1].alpha0 = 0,
                                                                      !.bodiesForProxies = Append(@, id)])

\* WorldImpl::SetTransformation.
SetTransformation(id, xfm) ==
    /\ CanCall
    /\ Has(m_bodies, id)
    /\ IF IsLocked THEN Throw("SetTransformation", "WrongState")
       ELSE IF At(m_bodyBuffer, id).xf = xfm THEN Return("SetTransformation", Entry)
       ELSE LET w1 == FlagForUpdating(Entry, id)
            IN  Return("SetTransformation", [w1 EXCEPT !.bodyBuffer.data[id + 1].xf = xfm, !.bodyBuffer.data[id + 1].pos0 = xfm,
                                                       !.bodyBuffer.data[id + 1].pos1 = xfm, !.bodyBuffer.data[id + 1].alpha0 = 0,
                                                       !.bodiesForProxies = Append(@, id)])

RECURSIVE ShiftBodies(_, _, _)
ShiftBodies(w, bodies, newOrigin) ==
    IF bodies = <<>> THEN w
    ELSE LET b == Head(bodies)
             w1 == FlagForUpdating([w EXCEPT !.bodyBuffer.data[b + 1].xf = @ - newOrigin], b)
         IN  ShiftBodies([w1 EXCEPT !.bodyBuffer.data[b + 1].pos0 = @ - newOrigin, !.bodyBuffer.data[b + 1].pos1 = @ - newOrigin], Tail(bodies), newOrigin)

\* The leaves are moved the other way.
ShiftTreeForth(tree, newOrigin) == [i \in 1 .. Len(tree) |-> IF tree[i].used THEN [tree[i] EXCEPT !.lo = @ + newOrigin, !.hi = @ + newOrigin] ELSE tree[i]]

\* DynamicTree::ShiftOrigin.
ShiftTree(tree, newOrigin) == [i \in 1 .. Len(tree) |-> IF tree[i].used THEN [tree[i] EXCEPT !.lo = @ - newOrigin, !.hi = @ - newOrigin] ELSE tree[i]]

\* WorldImpl::ShiftOrigin after the lock check: the bodies, then the joints,
\* whose data is local to their bodies (ShiftOrigin of a joint returns false),
\* then the tree.
ShiftOriginImpl(w, newOrigin) == [ShiftBodies(w, w.bodies, newOrigin) EXCEPT !.tree = ShiftTree(@, newOrigin)]

\* WorldImpl::ShiftOrigin.
ShiftOrigin(newOrigin) ==
    /\ CanCall
    /\ IF IsLocked THEN Throw("ShiftOrigin", "WrongState")
       ELSE Return("ShiftOrigin", ShiftOriginImpl(Entry, newOrigin))

(***************************************************************************)
(* Step.  The step runs phase by phase, so that the calls listeners make   *)
(* while the world is locked, and a listener's exception, are steps of     *)
(* their own.                                                              *)
(***************************************************************************)
\* The phases of WorldImpl::Step up to the time-step test: proxies are
\* created, destroyed and synchronized, contacts are destroyed, and new
\* contacts are found if fixtures were created.
PreStepSynced(w) ==
    IF ~Ok(w) THEN w
    ELSE IF w.flags.newFixture THEN FindNewContacts([w EXCEPT !.flags.newFixture = FALSE])
    ELSE w

PreStepProxied(w, cf) ==
    IF ~Ok(w) THEN w ELSE PreStepSynced(DestroyContacts(SynchronizeProxies([w EXCEPT !.fixturesForProxies = <<>>], cf)))

PreStep(w, cf) == PreStepProxied(CreateAndDestroyProxies(w, cf.aabbExtension), cf)

Phase(next, w) ==
    /\ pc' = next
    /\ Commit(w)
    /\ UNCHANGED <<conf, ops, lastOp>>
    /\ result' = IF Ok(w) THEN result ELSE w.fault

\* The step has run its first phases.
Running(w) == Commit(w) /\ result' = IF Ok(w) THEN "running" ELSE w.fault

\* WorldImpl::Step: the lock check, the lock, and the phases before the solve.
StepBegin(cf) ==
    /\ CanCall
    /\ IF IsLocked THEN Throw("Step", "WrongState")
       ELSE /\ ops' = ops + 1
            /\ lastOp' = "Step"
            /\ conf' = cf
            /\ pc' = "pre"
            /\ Running(PreStep([World EXCEPT !.flags.locked = TRUE, !.log = <<>>], cf))

\* WorldImpl::Step called again with the configuration of the last step
\* while the world is between the TOI events of a time step.
StepOn ==
    /\ fault = "none"
    /\ pc = "idle"
    /\ ~m_flags.stepComplete
    /\ ~IsLocked
    /\ lastOp' = "Step"
    /\ pc' = "pre"
    /\ Running(PreStep([World EXCEPT !.flags.locked = TRUE, !.log = <<>>], conf))
    /\ UNCHANGED <<conf, ops>>

\* WorldImpl::SetSubStepping.
SetSubStepping(flag) == CanCall /\ Call("SetSubStepping", "ok", [Entry EXCEPT !.flags.subStepping = flag])

\* OneSidedPlatform::PreSolve: the pre-solve listener, called for the contact
\* by the contact-update phase that has just run, disables the contact.
PreSolve(contact) ==
    /\ fault = "none"
    /\ pc = "updated"
    /\ Has(log, <<"presolve", contact>>)
    /\ At(m_contactBuffer, contact).enabled
    /\ Commit([World EXCEPT !.contactBuffer.data[contact + 1].enabled = FALSE])
    /\ UNCHANGED <<pc, conf, ops, lastOp, result>>

\* Step going on to UpdateContacts and the solvers whatever the time step.
StepUpdateAlways ==
    /\ fault = "none"
    /\ pc = "pre"
    /\ Phase("updated", UpdateContacts([World EXCEPT !.log = <<>>]))

\* WorldImpl::Step: UpdateContacts, when the time step is not zero.
StepUpdate ==
    /\ fault = "none"
    /\ pc = "pre"
    /\ conf.deltaTime # 0
    /\ Phase("updated", UpdateContacts([World EXCEPT !.log = <<>>]))

\* WorldImpl::Step: SolveReg, when the previous step was completed.
StepSolveReg ==
    /\ fault = "none"
    /\ pc = "updated"
    /\ Phase("reg", IF m_flags.stepComplete THEN SolveReg([World EXCEPT !.log = <<>>], conf) ELSE [World EXCEPT !.log = <<>>])

\* WorldImpl::Step: SolveToi, when the configuration asks for it.
StepSolveToi(hits) ==
    /\ fault = "none"
    /\ pc = "reg"
    /\ Phase("toi", IF conf.doToi THEN SolveToi([World EXCEPT !.log = <<>>], conf, hits) ELSE [World EXCEPT !.log = <<>>])

\* WorldImpl::Step returns: the flag guard releases the lock.
StepEnd ==
    /\ fault = "none"
    /\ pc = "toi" \/ (pc = "pre" /\ conf.deltaTime = 0)
    /\ pc' = "idle"
    /\ Commit([World EXCEPT !.flags.locked = FALSE, !.islands = <<>>])
    /\ result' = "ok"
    /\ lastOp' = "Step"
    /\ UNCHANGED <<conf, ops>>

\* A listener's exception leaves Step without the lock being released.
StepThrowLocked ==
    /\ fault = "none"
    /\ pc # "idle"
    /\ log # <<>>
    /\ pc' = "idle"
    /\ result' = "exception"
    /\ lastOp' = "Step"
    /\ UNCHANGED <<worldVars, fault, log, ev, islands, conf, ops, rope, gear>>

\* A listener the step has just invoked throws: the exception leaves Step and
\* the flag guard releases the lock.
StepThrow ==
    /\ fault = "none"
    /\ pc # "idle"
    /\ log # <<>>
    /\ pc' = "idle"
    /\ Commit([World EXCEPT !.flags.locked = FALSE, !.islands = <<>>])
    /\ result' = "exception"
    /\ lastOp' = "Step"
    /\ UNCHANGED <<conf, ops>>

(***************************************************************************)
(* Inputs.                                                                 *)
(***************************************************************************)
BodyIds == 0 .. (MaxBodies - 1)

FixtureIds == 0 .. (MaxFixtures - 1)

JointIds == 0 .. (MaxJoints - 1)

NoCollideFilter == [categoryBits |-> {1}, maskBits |-> {}, groupIndex |-> 0]

PlainFixture == [isSensor |-> FALSE, filter |-> DefaultFilter, density |-> 1, validShape |-> TRUE, resetMassData |-> TRUE]

\* The contacts the time-of-impact computation may report an impact for.
HitSets == IF conf.doToi THEN SUBSET (0 .. Size(m_contactBuffer)) ELSE {{}}

OneStep == [DefaultStepConf EXCEPT !.deltaTime = 1]

(***************************************************************************)
(* The locked world: two bodies with a fixture each are created and        *)
(* stepped, and every operation is called while the step is running.       *)
(***************************************************************************)
LockBodies == 2

LockBodyConfs == {[DefaultBodyConf EXCEPT !.type = "Dynamic", !.linearVelocity = v] : v \in {0, 1}}

LockJointDefs == {[bodyA |-> 0, bodyB |-> b, collideConnected |-> FALSE] : b \in {1, InvalidBodyID}}

LockStepConfs == {DefaultStepConf, OneStep, [OneStep EXCEPT !.doToi = TRUE]}

LockOps == 6

\* A listener the running step has invoked makes a call.
Listening == IsLocked /\ ops < LockOps

NextLock ==
    \/ ops < LockOps /\ (IsLocked \/ Len(m_bodies) < LockBodies) /\ \E def \in LockBodyConfs : CreateBody(def)
    \/ ops < LockOps /\ \E id \in Range(m_bodies) : (IsLocked \/ At(m_bodyBuffer, id).fixtures = <<>>) /\ CreateFixture(id, PlainFixture)
    \/ Listening /\ \E id \in BodyIds : CreateFixture(id, [PlainFixture EXCEPT !.validShape = FALSE])
    \/ ops < LockOps /\ \E cf \in LockStepConfs : StepBegin(cf)
    \/ StepUpdate
    \/ StepSolveReg
    \/ \E hits \in HitSets : StepSolveToi(hits)
    \/ StepEnd
    \/ StepThrow
    \/ Listening /\ \E id \in BodyIds : DestroyBody(id)
    \/ Listening /\ \E def \in LockJointDefs : CreateJoint(def)
    \/ Listening /\ \E id \in JointIds : DestroyJoint(id)
    \/ Listening /\ \E id \in JointIds, def \in LockJointDefs : SetJoint(id, def)
    \/ Listening /\ \E id \in FixtureIds : DestroyFixture(id, TRUE)
    \/ Listening /\ \E id \in BodyIds : SetMassData(id, PlainMassData)
    \/ Listening /\ \E id \in BodyIds, xfm \in {0, MaxLoc} : SetTransformation(id, xfm)
    \/ Listening /\ \E newOrigin \in {0, 1} : ShiftOrigin(newOrigin)
    \/ Listening /\ \E id \in FixtureIds, value \in BOOLEAN : SetSensor(id, value)
    \/ Listening /\ \E id \in FixtureIds, filter \in {DefaultFilter, NoCollideFilter} : SetFilterData(id, filter)
    \/ Listening /\ \E id \in FixtureIds : Refilter(id)
    \/ Listening /\ Clear
    \/ Listening /\ \E id \in BodyIds, type \in BodyTypes : SetType(id, type)
    \/ Listening /\ \E id \in BodyIds, flag \in BOOLEAN : SetEnabled(id, flag)

SpecLock == Init /\ [][NextLock]_vars

\* A call is made between steps, and fewer than n calls were made so far.
Between(n) == pc = "idle" /\ ops < n

(***************************************************************************)
(* Identifiers: bodies, joints between live bodies, fixtures and steps in  *)
(* any order.                                                              *)
(***************************************************************************)
RestingBody == [DefaultBodyConf EXCEPT !.type = "Dynamic"]

\* The joints a caller can define between the live bodies.
LiveJointDefs == {def \in [bodyA : Range(m_bodies), bodyB : Range(m_bodies) \cup {InvalidBodyID}, collideConnected : {FALSE}] : def.bodyA # def.bodyB}

StepPhases ==
    \/ StepUpdate
    \/ StepSolveReg
    \/ \E hits \in HitSets : StepSolveToi(hits)
    \/ StepEnd

IdsOps == 6

NextIds ==
    \/ Between(IdsOps) /\ CreateBody(RestingBody)
    \/ Between(IdsOps) /\ \E id \in BodyIds : DestroyBody(id)
    \/ Between(IdsOps) /\ \E def \in LiveJointDefs : CreateJoint(def)
    \/ Between(IdsOps) /\ \E id \in Range(m_joints), def \in LiveJointDefs : SetJoint(id, def)
    \/ Between(IdsOps) /\ \E id \in Range(m_joints) : DestroyJoint(id)
    \/ Between(IdsOps) /\ \E id \in BodyIds : CreateFixture(id, PlainFixture)
    \/ Between(IdsOps) /\ \E id \in FixtureIds : DestroyFixture(id, TRUE)
    \/ Between(IdsOps) /\ StepBegin(OneStep)
    \/ StepPhases

SpecIds == Init /\ [][NextIds]_vars

(***************************************************************************)
(* Joints whose definitions name any body identifier the world has ever    *)
(* returned or not.                                                        *)
(***************************************************************************)
AnyJointDefs == [bodyA : BodyIds, bodyB : BodyIds \cup {InvalidBodyID}, collideConnected : BOOLEAN]

JointOps == 5

NextJoints ==
    \/ Between(JointOps) /\ CreateBody(RestingBody)
    \/ Between(JointOps) /\ \E id \in BodyIds : DestroyBody(id)
    \/ Between(JointOps) /\ \E def \in AnyJointDefs : CreateJoint(def)
    \/ Between(JointOps) /\ \E id \in Range(m_joints), def \in AnyJointDefs : SetJoint(id, def)
    \/ Between(JointOps) /\ \E id \in Range(m_joints) : DestroyJoint(id)

SpecJoints == Init /\ [][NextJoints]_vars

(***************************************************************************)
(* The contact set: resting bodies with one fixture each are created at    *)
(* the same location, joined, moved, retyped and refiltered between steps. *)
(***************************************************************************)
PairJointDefs == {def \in [bodyA : Range(m_bodies), bodyB : Range(m_bodies), collideConnected : BOOLEAN] : def.bodyA < def.bodyB}

ContactOps == 7

NextContacts ==
    \/ Between(ContactOps) /\ CreateBody(RestingBody)
    \/ Between(ContactOps) /\ \E id \in Range(m_bodies) : At(m_bodyBuffer, id).fixtures = <<>> /\ CreateFixture(id, PlainFixture)
    \/ Between(ContactOps) /\ \E def \in PairJointDefs : CreateJoint(def)
    \/ Between(ContactOps) /\ \E id \in Range(m_joints), def \in PairJointDefs : SetJoint(id, def)
    \/ Between(ContactOps) /\ \E id \in Range(m_joints) : DestroyJoint(id)
    \/ Between(ContactOps) /\ \E id \in BodyIds, xfm \in {0, MaxLoc} : SetTransformation(id, xfm)
    \/ Between(ContactOps) /\ \E id \in BodyIds, type \in {"Static", "Dynamic"} : SetType(id, type)
    \/ Between(ContactOps) /\ \E id \in FixtureIds, filter \in {DefaultFilter, NoCollideFilter} : SetFilterData(id, filter)
    \/ Between(ContactOps) /\ \E cf \in {DefaultStepConf, OneStep} : StepBegin(cf)
    \/ StepPhases

SpecContacts == Init /\ [][NextContacts]_vars

(***************************************************************************)
(* Joined bodies in contact: resting bodies with one fixture each are      *)
(* created at the same location and joints between them are created,       *)
(* changed and destroyed between steps.                                    *)
(***************************************************************************)
JoinedOps == 8

NextJoined ==
    \/ Between(JoinedOps) /\ CreateBody(RestingBody)
    \/ Between(JoinedOps) /\ \E id \in Range(m_bodies) : At(m_bodyBuffer, id).fixtures = <<>> /\ CreateFixture(id, PlainFixture)
    \/ Between(JoinedOps) /\ \E def \in PairJointDefs : CreateJoint(def)
    \/ Between(JoinedOps) /\ \E id \in Range(m_joints), def \in PairJointDefs : SetJoint(id, def)
    \/ Between(JoinedOps) /\ \E id \in Range(m_joints) : DestroyJoint(id)
    \/ Between(JoinedOps) /\ \E cf \in {DefaultStepConf, OneStep} : StepBegin(cf)
    \/ StepPhases

SpecJoined == Init /\ [][NextJoined]_vars

(***************************************************************************)
(* Contact events: static and moving bodies with one sensor or solid       *)
(* fixture each are created at the same location, moved, retyped, disabled *)
(* and destroyed between steps with and without TOI handling.              *)
(* The listeners return normally.                                          *)
(***************************************************************************)
EventOps == 7

EventBodies == 2

EventBodyConfs == {DefaultBodyConf, [RestingBody EXCEPT !.linearVelocity = 1]}

NextEvents ==
    \/ Between(EventOps) /\ Len(m_bodies) < EventBodies /\ \E def \in EventBodyConfs : CreateBody(def)
    \/ Between(EventOps) /\ \E id \in Range(m_bodies), sensor \in BOOLEAN :
           At(m_bodyBuffer, id).fixtures = <<>> /\ CreateFixture(id, [PlainFixture EXCEPT !.isSensor = sensor])
    \/ Between(EventOps) /\ \E id \in BodyIds : DestroyBody(id)
    \/ Between(EventOps) /\ \E id \in FixtureIds : DestroyFixture(id, TRUE)
    \/ Between(EventOps) /\ \E id \in BodyIds, type \in {"Static", "Dynamic"} : SetType(id, type)
    \/ Between(EventOps) /\ \E id \in BodyIds : SetEnabled(id, FALSE)
    \/ Between(EventOps) /\ \E id \in BodyIds, xfm \in {1, MaxLoc} : SetTransformation(id, xfm)
    \/ Between(EventOps) /\ \E id \in FixtureIds, value \in BOOLEAN : SetSensor(id, value)
    \/ Between(EventOps) /\ \E cf \in {OneStep, [OneStep EXCEPT !.doToi = TRUE]} : StepBegin(cf)
    \/ StepPhases

SpecEvents == Init /\ [][NextEvents]_vars

(***************************************************************************)
(* Moved bodies: resting bodies with one fixture each are created, moved   *)
(* onto and away from each other, and stepped with a non-zero time step.   *)
(***************************************************************************)
PhaseOps == 9

NextPhases ==
    \/ Between(PhaseOps) /\ CreateBody(RestingBody)
    \/ Between(PhaseOps) /\ \E id \in Range(m_bodies) : At(m_bodyBuffer, id).fixtures = <<>> /\ CreateFixture(id, PlainFixture)
    \/ Between(PhaseOps) /\ \E id \in Range(m_bodies), xfm \in {0, MaxLoc} : SetTransformation(id, xfm)
    \/ Between(PhaseOps) /\ StepBegin(OneStep)
    \/ StepPhases

SpecPhases == Init /\ [][NextPhases]_vars

(***************************************************************************)
(* Zero steps: static and moving bodies with one fixture each are moved,   *)
(* disabled and stepped with zero and non-zero time steps.                 *)
(***************************************************************************)
ZeroOps == 7

ZeroBodies == 2

NextZero ==
    \/ Between(ZeroOps) /\ Len(m_bodies) < ZeroBodies /\ \E def \in EventBodyConfs : CreateBody(def)
    \/ Between(ZeroOps) /\ \E id \in Range(m_bodies) : At(m_bodyBuffer, id).fixtures = <<>> /\ CreateFixture(id, PlainFixture)
    \/ Between(ZeroOps) /\ \E id \in Range(m_bodies), xfm \in {1, MaxLoc} : SetTransformation(id, xfm)
    \/ Between(ZeroOps) /\ \E id \in Range(m_bodies), flag \in BOOLEAN : SetEnabled(id, flag)
    \/ Between(ZeroOps) /\ \E cf \in {DefaultStepConf, OneStep} : StepBegin(cf)
    \/ StepPhases

SpecZero == Init /\ [][NextZero]_vars

(***************************************************************************)
(* The slot allocator alone: the joint allocator is used as its users use  *)
(* it, with any value allocated and any allocated slot freed, in any       *)
(* order.  result holds the index the last Allocate returned.              *)
(***************************************************************************)
MaxSlots == 4

SlotValues == {BlankJoint, [BlankJoint EXCEPT !.collideConnected = TRUE]}

\* ArrayAllocator::Allocate(copy).
SlotAllocate(v) ==
    /\ Size(m_jointBuffer) < MaxSlots \/ m_jointBuffer.free # <<>>
    /\ m_jointBuffer' = Allocate(m_jointBuffer, v)
    /\ result' = AllocIndex(m_jointBuffer)
    /\ lastOp' = "Allocate"
    /\ UNCHANGED <<m_bodyBuffer, m_fixtureBuffer, m_contactBuffer, m_manifoldBuffer, m_bodies, m_joints, m_contacts,
                   m_bodiesForProxies, m_fixturesForProxies, m_proxies, m_tree, m_flags,
                   m_islandedBodies, m_islandedContacts, m_islandedJoints, fault, pc, conf, ops, log, ev, islands, rope, gear>>

\* ArrayAllocator::Free(index) of an allocated slot.
SlotFree(index) ==
    /\ InRange(m_jointBuffer, index)
    /\ ~Has(m_jointBuffer.free, index)
    /\ m_jointBuffer' = Free(m_jointBuffer, index, BlankJoint)
    /\ lastOp' = "Free"
    /\ UNCHANGED <<m_bodyBuffer, m_fixtureBuffer, m_contactBuffer, m_manifoldBuffer, m_bodies, m_joints, m_contacts,
                   m_bodiesForProxies, m_fixturesForProxies, m_proxies, m_tree, m_flags,
                   m_islandedBodies, m_islandedContacts, m_islandedJoints, fault, pc, conf, ops, result, log, ev, islands, rope, gear>>

NextSlots ==
    \/ \E v \in SlotValues : SlotAllocate(v)
    \/ \E index \in 0 .. (MaxSlots - 1) : SlotFree(index)

SpecSlots == Init /\ [][NextSlots]_vars

(***************************************************************************)
(* Islands: static, resting and moving bodies at two places, joined or in  *)
(* contact, and the regular solves over them.                              *)
(***************************************************************************)
IslandOps == 7

IslandBodyConfs == {DefaultBodyConf, RestingBody, [RestingBody EXCEPT !.location = MaxLoc, !.linearVelocity = 1]}

NextIslands ==
    \/ Between(IslandOps) /\ \E def \in IslandBodyConfs : CreateBody(def)
    \/ Between(IslandOps) /\ \E id \in Range(m_bodies) : At(m_bodyBuffer, id).fixtures = <<>> /\ CreateFixture(id, PlainFixture)
    \/ Between(IslandOps) /\ \E def \in PairJointDefs : CreateJoint(def)
    \/ Between(IslandOps) /\ \E cf \in {OneStep, [OneStep EXCEPT !.doToi = TRUE]} : StepBegin(cf)
    \/ StepPhases

SpecIslands == Init /\ [][NextIslands]_vars

(***************************************************************************)
(* Sleeping: bodies that may or may not sleep, at rest or moving, joined   *)
(* or in contact, stepped with and without position iterations and with    *)
(* different times a body has to be still before it sleeps.                *)
(***************************************************************************)
SleepOps == 6

SleepBodies == 2

SleepBodyConfs == {[RestingBody EXCEPT !.allowSleep = a, !.linearVelocity = v] : a \in BOOLEAN, v \in {0, 1}} \cup {DefaultBodyConf}

SleepStepConfs == {[OneStep EXCEPT !.minStillTimeToSleep = t, !.regPositionIterations = n] : t \in {0, 2}, n \in {0, 1}}

NextSleep ==
    \/ Between(SleepOps) /\ Len(m_bodies) < SleepBodies /\ \E def \in SleepBodyConfs : CreateBody(def)
    \/ Between(SleepOps) /\ \E id \in Range(m_bodies) : At(m_bodyBuffer, id).fixtures = <<>> /\ CreateFixture(id, PlainFixture)
    \/ Between(SleepOps) /\ \E def \in PairJointDefs : CreateJoint(def)
    \/ Between(SleepOps) /\ \E cf \in SleepStepConfs : StepBegin(cf)
    \/ StepPhases

SpecSleep == Init /\ [][NextSleep]_vars

(***************************************************************************)
(* Bodies: construction from every kind of definition, and the velocity    *)
(* and acceleration setters.                                               *)
(***************************************************************************)
BodyOps == 4

BodyCount == 2

\* The velocities and accelerations along the one axis.
Rates == {-1, 0, 1}

AnyBodyConfs ==
    {[DefaultBodyConf EXCEPT !.type = t, !.linearVelocity = v, !.linearAcceleration = a, !.awake = w, !.allowSleep = s] :
        t \in BodyTypes, v \in {0, 1}, a \in {0, 1}, w \in BOOLEAN, s \in BOOLEAN}

NextBodies ==
    \/ Between(BodyOps) /\ Len(m_bodies) < BodyCount /\ \E def \in AnyBodyConfs : CreateBody(def)
    \/ Between(BodyOps) /\ \E id \in Range(m_bodies), velocity \in Rates : SetVelocity(id, velocity)
    \/ Between(BodyOps) /\ \E id \in Range(m_bodies), linear \in Rates : SetAcceleration(id, linear)

SpecBodies == Init /\ [][NextBodies]_vars

(***************************************************************************)
(* Mass: bodies of every type that change type, gain and lose fixtures     *)
(* with and without density, and are given finite, zero and infinite mass. *)
(***************************************************************************)
MassOps == 5

MassBodies == 2

MassDatas == [mass : {0, 2, Infinity}, I : {0, 2}]

NextMass ==
    \/ Between(MassOps) /\ Len(m_bodies) < MassBodies /\ \E type \in BodyTypes : CreateBody([DefaultBodyConf EXCEPT !.type = type])
    \/ Between(MassOps) /\ \E id \in Range(m_bodies), type \in BodyTypes : SetType(id, type)
    \/ Between(MassOps) /\ \E id \in Range(m_bodies), density \in {0, 1} : CreateFixture(id, [PlainFixture EXCEPT !.density = density])
    \/ Between(MassOps) /\ \E id \in FixtureIds : DestroyFixture(id, TRUE)
    \/ Between(MassOps) /\ \E id \in Range(m_bodies), massData \in MassDatas : SetMassData(id, massData)

SpecMass == Init /\ [][NextMass]_vars

(***************************************************************************)
(* Mass data: fixtures with and without density come and go, with and      *)
(* without a reset of the body's mass data.                                *)
(***************************************************************************)
DirtyOps == 5

DirtyBodies == 2

DirtyFixtureDefs == {[PlainFixture EXCEPT !.density = d, !.resetMassData = r] : d \in {0, 1}, r \in BOOLEAN}

NextDirty ==
    \/ Between(DirtyOps) /\ Len(m_bodies) < DirtyBodies /\ \E def \in {DefaultBodyConf, RestingBody} : CreateBody(def)
    \/ Between(DirtyOps) /\ \E id \in Range(m_bodies), def \in DirtyFixtureDefs : CreateFixture(id, def)
    \/ Between(DirtyOps) /\ \E id \in FixtureIds, resetMassData \in BOOLEAN : DestroyFixture(id, resetMassData)
    \/ Between(DirtyOps) /\ \E id \in Range(m_bodies) : SetMassData(id, ComputeMassData(World, id))

SpecDirty == Init /\ [][NextDirty]_vars

(***************************************************************************)
(* The origin is shifted under bodies with proxies, contacts and joints.   *)
(***************************************************************************)
ShiftOps == 7

ShiftBodyCount == 2

NewOrigins == {-1, 2}

NextShift ==
    \/ Between(ShiftOps) /\ Len(m_bodies) < ShiftBodyCount /\ \E def \in EventBodyConfs : CreateBody(def)
    \/ Between(ShiftOps) /\ \E id \in Range(m_bodies) : At(m_bodyBuffer, id).fixtures = <<>> /\ CreateFixture(id, PlainFixture)
    \/ Between(ShiftOps) /\ m_joints = <<>> /\ \E def \in PairJointDefs : CreateJoint(def)
    \/ Between(ShiftOps) /\ \E newOrigin \in NewOrigins : ShiftOrigin(newOrigin)
    \/ Between(ShiftOps) /\ StepBegin(OneStep)
    \/ StepPhases

SpecShift == Init /\ [][NextShift]_vars

(***************************************************************************)
(* A rope joint through steps: the joint is constructed, and each step     *)
(* initialises its velocity constraints from the body constraints of the   *)
(* step and solves them a number of times.                                 *)
(***************************************************************************)
RopeOps == 5

RopeJointDefs == [maxLength : {0, Unit}]

\* The body constraints a step can hand to the joint: body A at the origin.
RopeConstraints == [posA : {0}, velA : {0}, invMassA : {0, Unit}, posB : {-2 * Unit, 0, 1, 2 * Unit}, velB : {-2 * Unit, 0, 2 * Unit}, invMassB : {0, Unit}]

RopeSteps == [doWarmStart : BOOLEAN, dtRatio : {0, Unit, 2 * Unit}, invTime : {Unit}, linearSlop : {0}]

\* The joint and the body constraints a call has left, with the step and the
\* calls made so far.
Roped(left, step, call) == [joint |-> left.joint, bodies |-> left.bodies, step |-> step, calls |-> Append(rope.calls, call)]

World_ == <<worldVars, fault, pc, conf, ops, lastOp, result, log, ev, islands>>

RopeCreate(def) ==
    /\ rope.calls = <<>>
    /\ rope' = [rope EXCEPT !.joint = NewRopeJoint(def), !.calls = <<"create">>]
    /\ UNCHANGED <<World_, gear>>

RopeInit(bodies, step) ==
    /\ rope.calls # <<>> /\ Len(rope.calls) < RopeOps
    /\ rope' = Roped(InitVelocityConstraints(rope.joint, bodies, step), step, IF step.doWarmStart THEN "warm" ELSE "init")
    /\ UNCHANGED <<World_, gear>>

RopeSolve ==
    /\ Len(rope.calls) > 1 /\ Len(rope.calls) < RopeOps
    /\ rope' = Roped(SolveVelocityConstraints(rope.joint, rope.bodies, rope.step), rope.step, "solve")
    /\ UNCHANGED <<World_, gear>>

NextRope ==
    \/ \E def \in RopeJointDefs : RopeCreate(def)
    \/ \E bodies \in RopeConstraints, step \in RopeSteps : RopeInit(bodies, step)
    \/ RopeSolve

SpecRope == Init /\ [][NextRope]_vars

(***************************************************************************)
(* Islands over static, dynamic, sleeping and disabled bodies with plain   *)
(* and sensor fixtures and joints.                                         *)
(***************************************************************************)
ReachOps == 7

ReachBodyConfs == {DefaultBodyConf, RestingBody, [RestingBody EXCEPT !.awake = FALSE]}

NextReach ==
    \/ Between(ReachOps) /\ \E def \in ReachBodyConfs : CreateBody(def)
    \/ Between(ReachOps) /\ \E id \in Range(m_bodies), sensor \in BOOLEAN :
           At(m_bodyBuffer, id).fixtures = <<>> /\ CreateFixture(id, [PlainFixture EXCEPT !.isSensor = sensor])
    \/ Between(ReachOps) /\ m_joints = <<>> /\ \E def \in PairJointDefs : CreateJoint(def)
    \/ Between(ReachOps) /\ \E id \in Range(m_bodies) : SetEnabled(id, FALSE)
    \/ Between(ReachOps) /\ StepBegin(OneStep)
    \/ StepPhases

SpecReach == Init /\ [][NextReach]_vars

(***************************************************************************)
(* Sub-stepping: static and moving bodies, some of them bullets, are       *)
(* stepped with continuous collision, one TOI event in a step when         *)
(* sub-stepping is on, and Step is called again for as long as the time    *)
(* step is not complete.                                                   *)
(***************************************************************************)
SubStepOps == 7

SubStepBodies == 2

SubStepBodyConfs == {DefaultBodyConf, [RestingBody EXCEPT !.linearVelocity = 1], [RestingBody EXCEPT !.bullet = TRUE]}

SubStepConfs == {[OneStep EXCEPT !.doToi = TRUE, !.maxSubSteps = n] : n \in 1 .. MaxSubSteps + 1}

NextSubStep ==
    \/ Between(SubStepOps) /\ Len(m_bodies) < SubStepBodies /\ \E def \in SubStepBodyConfs : CreateBody(def)
    \/ Between(SubStepOps) /\ \E id \in Range(m_bodies) : At(m_bodyBuffer, id).fixtures = <<>> /\ CreateFixture(id, PlainFixture)
    \/ Between(SubStepOps) /\ \E flag \in BOOLEAN : SetSubStepping(flag)
    \/ Between(SubStepOps) /\ \E cf \in SubStepConfs : StepBegin(cf)
    \/ StepOn
    \/ StepPhases

\* A step that has begun and has not failed goes on to its next phase or
\* returns: in each phase exactly one of the step's actions is enabled, and
\* each of them changes the phase.
StepGoesOn == fault = "none" /\ pc # "idle" /\ pc' \in {"updated", "reg", "toi", "idle"} /\ pc' # pc

\* A caller who goes on stepping: a step that has begun runs to its end, and
\* Step is called again while the time step is not complete.
SpecSubStep == Init /\ [][NextSubStep]_vars /\ WF_vars(StepOn) /\ WF_pc(StepGoesOn)

(***************************************************************************)
(* Contact lists: resting bodies with up to two fixtures each are created  *)
(* at the same location, stepped, moved apart, retyped, disabled and       *)
(* destroyed with their fixtures.                                          *)
(***************************************************************************)
ListOps == 8

ListBodies == 3

NextLists ==
    \/ Between(ListOps) /\ Len(m_bodies) < ListBodies /\ CreateBody(RestingBody)
    \/ Between(ListOps) /\ \E id \in Range(m_bodies) : Len(At(m_bodyBuffer, id).fixtures) < 2 /\ CreateFixture(id, PlainFixture)
    \/ Between(ListOps) /\ \E id \in BodyIds : DestroyBody(id)
    \/ Between(ListOps) /\ \E id \in FixtureIds : DestroyFixture(id, TRUE)
    \/ Between(ListOps) /\ \E id \in BodyIds, type \in {"Static", "Dynamic"} : SetType(id, type)
    \/ Between(ListOps) /\ \E id \in BodyIds, flag \in BOOLEAN : SetEnabled(id, flag)
    \/ Between(ListOps) /\ \E id \in BodyIds : SetTransformation(id, MaxLoc)
    \/ Between(ListOps) /\ StepBegin(OneStep)
    \/ StepPhases

SpecLists == Init /\ [][NextLists]_vars

(***************************************************************************)
(* Island flags: a static and a moving body with up to two fixtures each   *)
(* are created at the same location and stepped with TOI handling, and     *)
(* fixtures are destroyed between the steps.                               *)
(***************************************************************************)
FlagOps == 8

FlagBodies == 2

FlagBodyConfs == {DefaultBodyConf, [RestingBody EXCEPT !.linearVelocity = 1]}

NextFlags ==
    \/ Between(FlagOps) /\ Len(m_bodies) < FlagBodies /\ \E def \in FlagBodyConfs : CreateBody(def)
    \/ Between(FlagOps) /\ \E id \in Range(m_bodies) : Len(At(m_bodyBuffer, id).fixtures) < 2 /\ CreateFixture(id, PlainFixture)
    \/ Between(FlagOps) /\ \E id \in FixtureIds : DestroyFixture(id, TRUE)
    \/ Between(FlagOps) /\ StepBegin([OneStep EXCEPT !.doToi = TRUE])
    \/ StepPhases

SpecFlags == Init /\ [][NextFlags]_vars

(***************************************************************************)
(* The queue of moved proxies: bodies with one fixture each are stepped,   *)
(* refiltered, retyped, disabled and their fixtures destroyed.             *)
(***************************************************************************)
QueueOps == 7

QueueBodies == 2

NextQueue ==
    \/ Between(QueueOps) /\ Len(m_bodies) < QueueBodies /\ CreateBody(RestingBody)
    \/ Between(QueueOps) /\ \E id \in Range(m_bodies) : At(m_bodyBuffer, id).fixtures = <<>> /\ CreateFixture(id, PlainFixture)
    \/ Between(QueueOps) /\ \E id \in FixtureIds : Refilter(id)
    \/ Between(QueueOps) /\ \E id \in FixtureIds : SetFilterData(id, NoCollideFilter)
    \/ Between(QueueOps) /\ \E id \in BodyIds, type \in {"Kinematic", "Dynamic"} : SetType(id, type)
    \/ Between(QueueOps) /\ \E id \in FixtureIds : DestroyFixture(id, TRUE)
    \/ Between(QueueOps) /\ \E id \in BodyIds : SetEnabled(id, FALSE)
    \/ Between(QueueOps) /\ StepBegin(OneStep)
    \/ StepPhases

SpecQueue == Init /\ [][NextQueue]_vars

(***************************************************************************)
(* The one-sided platform: a static and a moving or resting body with one  *)
(* fixture each are stepped and moved, and the pre-solve listener disables *)
(* contacts.                                                               *)
(***************************************************************************)
PlatformOps == 7

PlatformBodies == 2

NextPlatform ==
    \/ Between(PlatformOps) /\ Len(m_bodies) < PlatformBodies /\ \E def \in EventBodyConfs \cup {RestingBody} : CreateBody(def)
    \/ Between(PlatformOps) /\ \E id \in Range(m_bodies) : At(m_bodyBuffer, id).fixtures = <<>> /\ CreateFixture(id, PlainFixture)
    \/ Between(PlatformOps) /\ \E id \in BodyIds, xfm \in {0, 1} : SetTransformation(id, xfm)
    \/ Between(PlatformOps) /\ StepBegin(OneStep)
    \/ \E contact \in ContactSlots : PreSolve(contact)
    \/ StepPhases

SpecPlatform == Init /\ [][NextPlatform]_vars

(***************************************************************************)
(* A gear joint through the position iterations of a step: the joint is    *)
(* set, and the iterations solve its position constraint on the body       *)
(* constraints the step hands to it.                                       *)
(***************************************************************************)
GearOps == 3

GearJointDefs == [type1 : {"Revolute", "Prismatic"}, type2 : {"Revolute", "Prismatic"}, ratio : {Unit}, constant : {0}]

\* The body constraints of a body that is at the origin or away from it,
\* turned or not, and movable or not.
GearBodies == [linear : {0, Unit}, angular : {0, Unit}, invMass : {0, Unit}, invRotInertia : {0, Unit}]

GearConfs == [linearSlop : {0, 1}]

GearSet(def, A, B, cf) ==
    /\ gear.calls = <<>>
    /\ gear' = [joint |-> def, bodies |-> [GroundedConstraints EXCEPT !.A = A, !.B = B], conf |-> cf, solved |-> FALSE, calls |-> <<"set">>]
    /\ UNCHANGED <<World_, rope>>

GearSolve ==
    /\ gear.calls # <<>> /\ Len(gear.calls) < GearOps
    /\ gear' = [gear EXCEPT !.bodies = SolvePositionConstraints(gear.joint, gear.bodies, gear.conf).bodies,
                            !.solved = SolvePositionConstraints(gear.joint, gear.bodies, gear.conf).solved,
                            !.calls = Append(@, "solve")]
    /\ UNCHANGED <<World_, rope>>

NextGear ==
    \/ \E def \in GearJointDefs, A \in GearBodies, B \in GearBodies, cf \in GearConfs : GearSet(def, A, B, cf)
    \/ GearSolve

SpecGear == Init /\ [][NextGear]_vars

(***************************************************************************)
(* The lock.                                                               *)
(***************************************************************************)
LockCheckedOps == {"CreateBody", "DestroyBody", "CreateJoint", "DestroyJoint", "SetJoint", "CreateFixture",
                   "DestroyFixture", "SetMassData", "SetTransformation", "ShiftOrigin", "Step"}

\* A call of one of the operations in ops is made while the world is locked.
LockedCall(names) == IsLocked /\ ops' # ops /\ lastOp' \in names

Rejected == result' = "WrongState" /\ UNCHANGED worldVars

\* C1: while the world is locked, each of create-body, destroy-body,
\* create-joint, destroy-joint, set-joint, create-fixture with a valid shape,
\* destroy-fixture, set-mass-data, set-transformation, shift-origin and step
\* raises WrongState and leaves the whole world state unchanged.
C1_LockedCallsRejected == [][(LockedCall(LockCheckedOps) /\ result' # "InvalidArgument") => Rejected]_vars

\* A listener's set-transformation was rejected while two bodies were in contact.
C1_Witness == IsLocked /\ lastOp = "SetTransformation" /\ result = "WrongState" /\ m_contacts # <<>>

\* C2: the world is locked exactly during a Step: the flag is set when the
\* first phase has run and until the step returns or is left by a listener's
\* exception, it is clear whenever no step is running, and a call made while
\* no step is running is not rejected with WrongState.
C2_LockedExactlyDuringStep ==
    [][(m_flags'.locked <=> pc' # "idle") /\ ((pc = "idle" /\ ops' # ops) => result' # "WrongState")]_vars

\* A step with bodies in the world was left by a listener's exception and the world is unlocked.
C2_Witness == pc = "idle" /\ result = "exception" /\ ~IsLocked /\ m_contacts # <<>>

\* C3: set-sensor, set-filter-data, re-filter and clear-world are rejected
\* with WrongState and change nothing when called while the world is locked.
C3_UncheckedCallsRejected == [][LockedCall({"SetSensor", "SetFilterData", "Refilter", "Clear"}) => Rejected]_vars

\* C4: set-type and set-enabled are rejected with WrongState whenever the
\* world is locked, for every argument, the body's current value included.
C4_BodyMutatorsRejected == [][LockedCall({"SetType", "SetEnabled"}) => result' = "WrongState"]_vars

(***************************************************************************)
(* Identifiers.                                                            *)
(***************************************************************************)
NoDup(seq) == \A i, j \in 1 .. Len(seq) : i # j => seq[i] # seq[j]

\* The identifiers in the list are those of allocated slots that are not free.
Allocated(buf, ids) == \A id \in Range(ids) : InRange(buf, id) /\ ~Has(buf.free, id)

\* C5: an identifier returned by a create operation refers to the same entity
\* until that entity is destroyed: no identifier is live twice, no live
\* entity's slot is in its allocator's free list, and no live joint's or
\* fixture's slot has been reset.
C5_IdentifiersStable ==
    fault = "none" =>
        /\ NoDup(m_bodies) /\ Allocated(m_bodyBuffer, m_bodies)
        /\ NoDup(m_joints) /\ Allocated(m_jointBuffer, m_joints)
        /\ NoDup(ContactIds(m_contacts)) /\ Allocated(m_contactBuffer, ContactIds(m_contacts))
        /\ \A b \in Range(m_bodies) : NoDup(At(m_bodyBuffer, b).fixtures) /\ Allocated(m_fixtureBuffer, At(m_bodyBuffer, b).fixtures)
        /\ \A j \in Range(m_joints) : InRange(m_jointBuffer, j) => At(m_jointBuffer, j) # BlankJoint
        /\ \A b \in Range(m_bodies) : \A f \in Range(At(m_bodyBuffer, b).fixtures) : InRange(m_fixtureBuffer, f) => At(m_fixtureBuffer, f).body = b

\* C8: between world operations, the bodies every live joint references are live.
C8_JointsReferenceLiveBodies ==
    (fault = "none" /\ pc = "idle") =>
        \A j \in Range(m_joints) : InRange(m_jointBuffer, j) =>
            /\ At(m_jointBuffer, j).bodyA \in Range(m_bodies) \cup {InvalidBodyID}
            /\ At(m_jointBuffer, j).bodyB \in Range(m_bodies) \cup {InvalidBodyID}

(***************************************************************************)
(* The contact set.                                                        *)
(***************************************************************************)
\* A Step has just returned.
Stepped == fault = "none" /\ pc = "idle" /\ lastOp = "Step" /\ result = "ok"

\* The pairs of proxies of two different bodies.
ProxyPairs == {q \in (0 .. (Len(m_tree) - 1)) \X (0 .. (Len(m_tree) - 1)) :
                  q[1] < q[2] /\ IsLeaf(m_tree, q[1]) /\ IsLeaf(m_tree, q[2]) /\ LeafAt(m_tree, q[1]).body # LeafAt(m_tree, q[2]).body}

\* The fixture filters and the joints between the two bodies permit the
\* pair to collide (the test of WorldImpl::Add, which also requires one of
\* the bodies to be accelerable).
Permitted(q) ==
    /\ ShouldCollide(World, At(m_bodyBuffer, LeafAt(m_tree, q[2]).body), At(m_bodyBuffer, LeafAt(m_tree, q[1]).body), LeafAt(m_tree, q[1]).body)
    /\ FiltersCollide(At(m_fixtureBuffer, LeafAt(m_tree, q[1]).fixture), At(m_fixtureBuffer, LeafAt(m_tree, q[2]).fixture))

ContactsOf(q) == {i \in 1 .. Len(m_contacts) : m_contacts[i].key = q}

\* C6: after every Step, a pair of proxies of two different bodies has
\* exactly one contact if the fattened AABBs overlap in the tree and the
\* filters and joints permit collision, and no contact otherwise.
C6_ContactSetConsistent ==
    Stepped => \A q \in ProxyPairs :
        Cardinality(ContactsOf(q)) = IF TestOverlap(m_tree, q[1], q[2]) /\ Permitted(q) THEN 1 ELSE 0

\* The live joints with collide-connected false that join the two bodies.
Forbidding(a, b) == {j \in Range(m_joints) : InRange(m_jointBuffer, j) /\ ~At(m_jointBuffer, j).collideConnected
                                               /\ {At(m_jointBuffer, j).bodyA, At(m_jointBuffer, j).bodyB} = {a, b}}

\* C7: after every Step, no contact exists between two bodies joined by a
\* joint whose collide-connected flag is false.
C7_NoContactBetweenJoined ==
    Stepped => \A i \in 1 .. Len(m_contacts) :
        Forbidding(At(m_contactBuffer, m_contacts[i].id).bodyA, At(m_contactBuffer, m_contacts[i].id).bodyB) = {}

\* After a Step, two bodies with overlapping proxies are joined by a joint
\* that forbids their collision, and the contact they had has been destroyed.
C7_Witness ==
    /\ Stepped
    /\ m_contactBuffer.free # <<>>
    /\ \E q \in ProxyPairs : TestOverlap(m_tree, q[1], q[2]) /\ Forbidding(LeafAt(m_tree, q[1]).body, LeafAt(m_tree, q[2]).body) # {}

(***************************************************************************)
(* Contact events.                                                         *)
(***************************************************************************)
\* C9: with no invalid access, the begin-contact and end-contact events of
\* every contact alternate starting with begin-contact, a contact that is
\* touching has begun and not ended, a contact that is not touching has ended
\* or never begun, and a contact that was destroyed has ended or never begun:
\* end-contact fired exactly once for each change of touching from true to
\* false and for each destruction of a touching contact.
Live(c) == \E i \in 1 .. Len(m_contacts) : m_contacts[i].id = c

C9_EndContactOncePerCeasing ==
    fault = "none" =>
        \A c \in ContactSlots :
            /\ ev[c].alternating
            /\ Live(c) => (At(m_contactBuffer, c).touching <=> ev[c].last = "begin")
            /\ ~Live(c) => ev[c].last # "begin"

\* A contact that was touching has been destroyed between steps and its end
\* was told.
C9_Witness ==
    /\ fault = "none"
    /\ pc = "idle"
    /\ lastOp \in {"DestroyBody", "DestroyFixture", "SetType"}
    /\ \E c \in ContactSlots : ~Live(c) /\ ev[c].last = "end"

\* C10: with no invalid access, every post-solve event of a contact followed
\* a begin-contact event of that contact with no end-contact event of it in
\* between.
C10_PostSolveAfterBegin == fault = "none" => \A c \in ContactSlots : ev[c].preceded

\* The TOI solver has reported post-solve for a contact.
C10_Witness ==
    /\ fault = "none"
    /\ pc = "toi"
    /\ \E c \in ContactSlots : Has(log, <<"postsolve", c>>) /\ ev[c].solved /\ ev[c].last = "begin"

\* C11: with no invalid access, every pre-solve event was for a contact that
\* at that moment was touching and had no sensor fixture.
C11_PreSolveOnlyForSolidTouching == fault = "none" => \A c \in ContactSlots : ev[c].apt

\* The contact update of a step has told pre-solve for a contact that had
\* begun in an earlier step.
C11_Witness ==
    /\ fault = "none"
    /\ pc = "updated"
    /\ \E c \in ContactSlots : Has(log, <<"presolve", c>>) /\ ~Has(log, <<"begin", c>>) /\ At(m_contactBuffer, c).touching

(***************************************************************************)
(* The phases of a step.                                                   *)
(***************************************************************************)
\* C12: in a step with a non-zero time step, when the narrow-phase contact
\* update starts, contact creation has already run for the proxies queued
\* since the previous step: every permitted pair of overlapping proxies of
\* which one is queued has its contact.
C12_QueuedPairsFoundBeforeUpdate ==
    (fault = "none" /\ pc = "pre" /\ conf.deltaTime # 0) =>
        \A q \in ProxyPairs :
            ((Has(m_proxies, q[1]) \/ Has(m_proxies, q[2])) /\ TestOverlap(m_tree, q[1], q[2]) /\ Permitted(q)) => ContactsOf(q) # {}

\* The transformation, sweep and velocity of every body slot.
Kinematics == [i \in 1 .. Len(m_bodyBuffer.data) |->
                  [xf |-> m_bodyBuffer.data[i].xf, pos0 |-> m_bodyBuffer.data[i].pos0, pos1 |-> m_bodyBuffer.data[i].pos1,
                   alpha0 |-> m_bodyBuffer.data[i].alpha0, velocity |-> m_bodyBuffer.data[i].velocity]]

\* C13: no part of a step with a zero time step changes the transformation,
\* the sweep or the velocity of a body.
C13_ZeroStepKeepsBodies ==
    [][(fault' = "none" /\ lastOp' = "Step" /\ conf'.deltaTime = 0 /\ (pc # "idle" \/ pc' # "idle")) => Kinematics' = Kinematics]_vars

\* A zero step has returned in a world with a moving body and a contact.
C13_Witness ==
    /\ Stepped
    /\ conf.deltaTime = 0
    /\ m_contacts # <<>>
    /\ \E id \in Range(m_bodies) : At(m_bodyBuffer, id).velocity # 0

(***************************************************************************)
(* The slot allocator.                                                     *)
(***************************************************************************)
\* The lowest index in a non-empty list of indices.
Lowest(free) == CHOOSE x \in Range(free) : \A y \in Range(free) : x <= y

\* Allocate appended one slot and returned the former size.
Appended == /\ result' = Size(m_jointBuffer)
            /\ Size(m_jointBuffer') = Size(m_jointBuffer) + 1
            /\ m_jointBuffer'.free = <<>>

\* C14: Allocate returns the lowest index that is free at the time of the
\* call, and with no free slot it appends one slot and returns the former
\* size of the array.
C14_AllocateLowestFree ==
    [][lastOp' = "Allocate" =>
          IF m_jointBuffer.free # <<>> THEN result' = Lowest(m_jointBuffer.free) ELSE Appended]_vars

\* C14 as the allocator has it: Allocate returns the index at the back of
\* the free list, the one freed last among those still free, takes it off
\* the list and keeps the size of the array; with no free slot it appends
\* one slot and returns the former size of the array.
C14_AllocateLastFreed ==
    [][lastOp' = "Allocate" =>
          IF m_jointBuffer.free # <<>>
          THEN /\ result' = Last(m_jointBuffer.free)
               /\ m_jointBuffer'.free = Front(m_jointBuffer.free)
               /\ Size(m_jointBuffer') = Size(m_jointBuffer)
          ELSE Appended]_vars

\* Allocate has returned an index while a lower index is free.
C14_Witness == lastOp = "Allocate" /\ \E x \in Range(m_jointBuffer.free) : x < result

(***************************************************************************)
(* Identifiers within a step.                                              *)
(***************************************************************************)
\* C15: no phase of a step hands the identifier of a contact it or an
\* earlier phase of the step destroyed to a new contact: an identifier that
\* is live before and after a phase of a step is that of the same contact.
C15_FreedContactIdNotReusedInStep ==
    [][(pc' # "idle" /\ fault' = "none") =>
          \A i \in 1 .. Len(m_contacts), j \in 1 .. Len(m_contacts') :
              m_contacts[i].id = m_contacts'[j].id => m_contacts[i].key = m_contacts'[j].key]_vars


\* The speedable bodies of an island.
Speedables(island) == {b \in Range(island.bodies) : IsSpeedable(At(m_bodyBuffer, b))}

\* C16: within one regular solve no body, contact or joint identifier is
\* twice in the same island, and no contact, joint or speedable body is in
\* two islands; a body in more than one island is non-speedable.
C16_IslandsDisjoint ==
    (fault = "none" /\ pc = "reg") =>
        /\ \A k \in 1 .. Len(islands) : NoDup(islands[k].bodies) /\ NoDup(islands[k].contacts) /\ NoDup(islands[k].joints)
        /\ \A k, l \in 1 .. Len(islands) : k # l =>
               /\ Range(islands[k].contacts) \cap Range(islands[l].contacts) = {}
               /\ Range(islands[k].joints) \cap Range(islands[l].joints) = {}
               /\ Speedables(islands[k]) \cap Range(islands[l].bodies) = {}

\* Two islands of one regular solve share a static body, one holding it by a
\* contact and the other by a joint.
C16_Witness ==
    /\ fault = "none" /\ pc = "reg" /\ Len(islands) = 2
    /\ Range(islands[1].bodies) \cap Range(islands[2].bodies) # {}
    /\ \E k, l \in 1 .. 2 : islands[k].contacts # <<>> /\ islands[l].joints # <<>>

\* The static bodies of the world.
Statics == {id \in Range(m_bodies) : At(m_bodyBuffer, id).type = "Static"}

\* C17: no transition of a Step changes the transformation, the sweep
\* positions or the velocity of a static body, whether or not the body is in
\* islands of the regular or the TOI solve, and no static body is awake when
\* the Step has returned.
C17_StepKeepsStatics ==
    [][(lastOp' = "Step" /\ fault' = "none" /\ (pc # "idle" \/ pc' # "idle")) =>
           \A id \in Statics :
               /\ At(m_bodyBuffer', id).xf = At(m_bodyBuffer, id).xf
               /\ At(m_bodyBuffer', id).pos0 = At(m_bodyBuffer, id).pos0
               /\ At(m_bodyBuffer', id).pos1 = At(m_bodyBuffer, id).pos1
               /\ At(m_bodyBuffer', id).velocity = At(m_bodyBuffer, id).velocity
               /\ pc' = "idle" => ~At(m_bodyBuffer', id).awake]_vars

\* A static body was in an island of the regular solve and, with a contact
\* solved at its time of impact, in an island of the TOI solve of the same step.
C17_Witness ==
    /\ fault = "none" /\ pc = "toi"
    /\ \E id \in Statics, c \in ContactSlots :
           /\ Has(log, <<"postsolve", c>>)
           /\ id \in {At(m_contactBuffer, c).bodyA, At(m_contactBuffer, c).bodyB}
           /\ \E k \in 1 .. Len(islands) : id \in Range(islands[k].bodies)

\* The position at which a body is in an island's list.
Place(island, id) == CHOOSE i \in 1 .. Len(island.bodies) : island.bodies[i] = id

\* The regular solve put the island to sleep: all its speedable bodies are asleep.
PutToSleep(island) == Speedables(island) \subseteq island.asleep

\* The island's speedable bodies have all been under-active for the time the
\* step asks for.
StillLongEnough(island) == \A id \in Speedables(island) : island.times[Place(island, id)] >= conf.minStillTimeToSleep

\* A speedable body of the island that may not sleep, or that the solve left moving.
Restless(island, id) == id \in Speedables(island) /\ (~At(m_bodyBuffer, id).allowSleep \/ id \in island.moving)

\* C18: in the regular solve an island's speedable bodies are put to sleep
\* if and only if the position solve converged and the least under-active
\* time of its speedable bodies is at least the minimum still time; a body
\* that may not sleep or that moves has its under-active time reset to 0,
\* and no body of an island with such a body is put to sleep.
C18_SleepIffStillAndSolved ==
    (fault = "none" /\ pc = "reg") =>
        \A k \in 1 .. Len(islands) :
            /\ PutToSleep(islands[k]) <=> (Solved(conf) /\ StillLongEnough(islands[k]))
            /\ \A id \in Range(islands[k].bodies) :
                   Restless(islands[k], id) =>
                       /\ islands[k].times[Place(islands[k], id)] = 0
                       /\ Speedables(islands[k]) \cap islands[k].asleep = {}

\* Only speedable bodies are awake or move, and only accelerable bodies accelerate.
BodiesSound(buffer, bodies) ==
    \A id \in Range(bodies) :
        /\ ~IsSpeedable(At(buffer, id)) => (~At(buffer, id).awake /\ At(buffer, id).velocity = 0)
        /\ ~IsAccelerable(At(buffer, id)) => At(buffer, id).acceleration = 0

\* The call just made set a non-zero velocity on a body that is not speedable.
VelocityIgnorable == lastOp' = "SetVelocity" /\ result'[2] # 0 /\ ~IsSpeedable(At(m_bodyBuffer, result'[1]))

\* The call just made set a non-zero acceleration on a body that is not accelerable.
AccelerationIgnorable == lastOp' = "SetAcceleration" /\ result'[2] # 0 /\ ~IsAccelerable(At(m_bodyBuffer, result'[1]))

\* C19: after every construction, set-velocity and set-acceleration a body
\* that is not speedable is not awake and has zero velocity and a body that
\* is not accelerable has zero acceleration; a non-zero velocity set on a
\* body that is not speedable and a non-zero acceleration set on a body that
\* is not accelerable leave the body as it was; and the body of the default
\* definition is static, enabled and not awake.
C19_BodyInvariants ==
    [][/\ BodiesSound(m_bodyBuffer', m_bodies')
       /\ VelocityIgnorable => m_bodyBuffer' = m_bodyBuffer
       /\ AccelerationIgnorable => m_bodyBuffer' = m_bodyBuffer
       /\ NewBody(DefaultBodyConf).type = "Static" /\ NewBody(DefaultBodyConf).enabled /\ ~NewBody(DefaultBodyConf).awake]_vars

\* A static body was built from a definition that asks for velocity and
\* acceleration, and a non-zero velocity has just been set on it.
C19_Witness ==
    /\ lastOp = "SetVelocity" /\ result[2] # 0
    /\ At(m_bodyBuffer, result[1]).type = "Static"
    /\ Len(m_bodies) = BodyCount
    /\ \E id \in Range(m_bodies) : At(m_bodyBuffer, id).type = "Dynamic" /\ At(m_bodyBuffer, id).acceleration # 0

\* C20: after every create-body, set-type, create-fixture, destroy-fixture
\* and set-mass-data, a body that is not dynamic has inverse mass 0 and
\* inverse rotational inertia 0 and a dynamic body has a non-zero inverse mass.
C20_InverseMassFollowsType ==
    fault = "none" =>
        \A id \in Range(m_bodies) :
            IF At(m_bodyBuffer, id).type = "Dynamic" THEN At(m_bodyBuffer, id).invMass # Zero
            ELSE At(m_bodyBuffer, id).invMass = Zero /\ At(m_bodyBuffer, id).invRotI = Zero

\* Body::IsMassDataDirty of a body of the world w.
IsMassDataDirty(w, id) == BodyAt(w, id).massDataDirty

\* A fixture can be created: the world is not locked and has room for it.
CanCreateFixture == ~IsLocked /\ Size(m_fixtureBuffer) < MaxFixtures /\ ~AllocFaults(m_fixtureBuffer)

\* The flag of the body created last is clear, and so is the flag of every
\* body after reset-mass-data and after destroy-fixture with mass reset; it
\* is set after destroy-fixture without mass reset.
DirtyFollowsDestroyAndReset ==
    /\ (lastOp = "CreateBody" /\ result = "ok") => ~IsMassDataDirty(World, Last(m_bodies))
    /\ \A id \in Range(m_bodies) :
           /\ ~IsMassDataDirty(ResetMassData(World, id), id)
           /\ \A f \in Range(At(m_bodyBuffer, id).fixtures), resetMassData \in BOOLEAN :
                  IsMassDataDirty(DestroyFixtureImpl(World, f, resetMassData), id) = ~resetMassData

\* C21 as stated: a new body's mass-data-dirty flag is clear; it is set after
\* create-fixture of a shape with positive density without mass reset and
\* after destroy-fixture without mass reset; it is clear after
\* reset-mass-data and after every create-fixture or destroy-fixture with
\* mass reset.
C21_DirtyClearAfterAnyCreateWithReset ==
    (fault = "none" /\ pc = "idle") =>
        /\ DirtyFollowsDestroyAndReset
        /\ CanCreateFixture =>
               \A id \in Range(m_bodies), def \in DirtyFixtureDefs :
                   /\ (def.density > 0 /\ ~def.resetMassData) => IsMassDataDirty(CreateFixtureImpl(World, id, def), id)
                   /\ def.resetMassData => ~IsMassDataDirty(CreateFixtureImpl(World, id, def), id)

\* What the code does on create-fixture: a shape with positive density
\* leaves the flag set without mass reset and clear with it; a shape without
\* density leaves the flag as it was, mass reset or not.
DirtyFollowsDensity ==
    (fault = "none" /\ pc = "idle") =>
        /\ DirtyFollowsDestroyAndReset
        /\ CanCreateFixture =>
               \A id \in Range(m_bodies), def \in DirtyFixtureDefs :
                   IsMassDataDirty(CreateFixtureImpl(World, id, def), id) =
                       IF def.density > 0 THEN ~def.resetMassData ELSE IsMassDataDirty(World, id)

\* A create call was made on the unlocked world and got past the checks
\* that come before the one for the maximum.
Created(op) == lastOp' = op /\ ~IsLocked /\ fault' = "none" /\ result' # "InvalidArgument"

\* The call was rejected with LengthError exactly when the number of live
\* entities had reached the maximum, and then changed nothing.
RejectedWhenFull(live, max) ==
    /\ result' = "LengthError" <=> live >= max
    /\ result' = "LengthError" => UNCHANGED worldVars
    /\ result' # "LengthError" => result' = "ok"

\* C22: create-body, create-fixture and create-joint raise LengthError
\* exactly when the live bodies, fixtures or joints already number MaxBodies,
\* MaxFixtures or MaxJoints, and succeed otherwise, also after entities have
\* been destroyed; a rejected create leaves the world unchanged.
C22_LengthErrorExactlyWhenFull ==
    [][/\ Created("CreateBody") => RejectedWhenFull(Len(m_bodies), MaxBodies)
       /\ Created("CreateFixture") => RejectedWhenFull(Cardinality(LiveFixtures), MaxFixtures)
       /\ Created("CreateJoint") => RejectedWhenFull(Len(m_joints), MaxJoints)]_vars

\* The body b moved by -D is the body a; everything local to the body and
\* its velocity are the same.
BodyShifted(a, b, D) == a = [b EXCEPT !.xf = @ - D, !.pos0 = @ - D, !.pos1 = @ - D]

\* The leaf l moved by -D is the leaf k.
LeafShifted(k, l, D) == k = IF l.used THEN [l EXCEPT !.lo = @ - D, !.hi = @ - D] ELSE l

\* In the world w every body and every proxy of the present world has moved
\* by -D, and bodies, fixtures, joints and contacts are the same but for the
\* contacts' need of an update.
ShiftedBy(w, D) ==
    /\ \A i \in 1 .. Len(m_bodyBuffer.data) :
           IF Has(m_bodies, i - 1) THEN BodyShifted(w.bodyBuffer.data[i], m_bodyBuffer.data[i], D)
           ELSE w.bodyBuffer.data[i] = m_bodyBuffer.data[i]
    /\ w.bodyBuffer.free = m_bodyBuffer.free
    /\ Len(w.tree) = Len(m_tree)
    /\ \A i \in 1 .. Len(m_tree) : LeafShifted(w.tree[i], m_tree[i], D)
    /\ w.jointBuffer = m_jointBuffer /\ w.fixtureBuffer = m_fixtureBuffer /\ w.manifoldBuffer = m_manifoldBuffer
    /\ w.bodies = m_bodies /\ w.joints = m_joints /\ w.contacts = m_contacts
    /\ w.contactBuffer.free = m_contactBuffer.free
    /\ \A i \in 1 .. Len(m_contactBuffer.data) :
           [w.contactBuffer.data[i] EXCEPT !.needsUpdating = FALSE] = [m_contactBuffer.data[i] EXCEPT !.needsUpdating = FALSE]
    /\ w.proxies = m_proxies /\ w.bodiesForProxies = m_bodiesForProxies /\ w.fixturesForProxies = m_fixturesForProxies
    /\ w.flags = m_flags

C24_RopeImpulseNotPositive == rope.joint.impulse <= 0

\* A taut rope has been solved, warm started with a doubled impulse and solved
\* again, and holds a negative impulse.
C24_Witness ==
    /\ rope.calls = <<"create", "init", "solve", "warm", "solve">>
    /\ rope.step.dtRatio > Unit /\ rope.joint.state = "atUpperLimit"
    /\ rope.joint.impulse < 0

\* The contacts of the body that an island takes: enabled, touching, not sensor.
Taken(id) == {c \in Range(ContactIds(At(m_bodyBuffer, id).contacts)) : At(m_contactBuffer, c).enabled /\ At(m_contactBuffer, c).touching /\ ~At(m_contactBuffer, c).sensor}

\* The joints of the body that an island takes: those without another body or
\* with an enabled one.
Tied(id) == {j \in Range(At(m_bodyBuffer, id).joints) : j.other = InvalidBodyID \/ At(m_bodyBuffer, j.other).enabled}

\* The bodies one contact or joint away from a speedable body.
Linked(id) ==
    IF ~IsSpeedable(At(m_bodyBuffer, id)) THEN {}
    ELSE (UNION {{At(m_contactBuffer, c).bodyA, At(m_contactBuffer, c).bodyB} : c \in Taken(id)})
         \cup ({j.other : j \in Tied(id)} \ {InvalidBodyID})

RECURSIVE Reached(_)
\* The bodies reachable from the given ones.
Reached(ids) == IF (UNION {Linked(id) : id \in ids}) \subseteq ids THEN ids ELSE Reached(ids \cup UNION {Linked(id) : id \in ids})

\* The island is the one its first body seeds.
Grown(island) ==
    LET from == {id \in Reached({island.bodies[1]}) : IsSpeedable(At(m_bodyBuffer, id))}
    IN  /\ Range(island.bodies) = Reached({island.bodies[1]})
        /\ Range(island.contacts) = UNION {Taken(id) : id \in from}
        /\ Range(island.joints) = UNION {{j.id : j \in Tied(id)} : id \in from}
        /\ \A id \in Range(island.bodies) : At(m_bodyBuffer, id).enabled

\* The regular solve of a step.
RegularSolve == pc = "updated" /\ pc' = "reg" /\ m_flags.stepComplete /\ fault' = "none"

\* C26: in a regular solve every awake and enabled body is in some island,
\* each island holds exactly the bodies reachable from its seed through
\* enabled, touching, non-sensor contacts and through joints whose other body
\* is enabled, never going on through a non-speedable body, with exactly the
\* contacts and joints traversed, and no island holds a disabled body.
C26_IslandsAreReachSets ==
    [][RegularSolve =>
          /\ \A id \in Range(m_bodies) :
                 (At(m_bodyBuffer, id).awake /\ At(m_bodyBuffer, id).enabled) => \E k \in 1 .. Len(islands') : id \in Range(islands'[k].bodies)
          /\ \A k \in 1 .. Len(islands') : Grown(islands'[k])]_vars

\* A regular solve has built an island that holds a static body, reached
\* through a contact and a joint, while another body stayed out of it.
C26_Witness ==
    /\ fault = "none" /\ pc = "reg" /\ Len(m_bodies) = 3
    /\ \E k \in 1 .. Len(islands) :
           /\ Len(islands[k].bodies) = 2 /\ islands[k].contacts # <<>> /\ islands[k].joints # <<>>
           /\ \E id \in Range(islands[k].bodies) : ~IsSpeedable(At(m_bodyBuffer, id))

\* The TOI count a contact of the world after the TOI phase had when the
\* phase began: none for a new contact, and none when the phase began with
\* the step complete, since the counts are then zeroed.
CountBefore(id) ==
    IF m_flags.stepComplete \/ ~Has(ContactIds(m_contacts), id) THEN 0 ELSE At(m_contactBuffer, id).toiCount

\* The contacts the TOI phase has handled as TOI events.
Handled == {id \in Range(ContactIds(m_contacts')) : At(m_contactBuffer', id).toiCount > CountBefore(id)}

\* The regular solve is run when the step is complete and is left out
\* otherwise.
RegularSolveIffComplete ==
    (pc = "updated" /\ pc' = "reg" /\ fault' = "none") =>
        IF m_flags.stepComplete
        THEN (\E id \in Range(m_bodies) : At(m_bodyBuffer, id).awake /\ At(m_bodyBuffer, id).enabled) => islands' # <<>>
        ELSE worldVars' = worldVars /\ islands' = <<>>

\* With sub-stepping the TOI phase handles at most one event and leaves the
\* step not complete when it has handled one.
OneEventInSubStep ==
    (pc = "reg" /\ pc' = "toi" /\ fault' = "none" /\ m_flags.subStepping /\ conf.doToi) =>
        /\ Cardinality(Handled) <= 1
        /\ \A id \in Handled : At(m_contactBuffer', id).toiCount = CountBefore(id) + 1
        /\ Handled # {} => ~m_flags'.stepComplete

\* The world is between the TOI events of a time step.
MidToi == fault = "none" /\ pc = "idle" /\ ~m_flags.stepComplete

\* C27: the regular solve runs in a step only if the world is step-complete
\* when that phase is reached; with sub-stepping a step handles at most one
\* TOI event and returns not step-complete whenever it handled one; from
\* such a state repeated steps eventually return the world to step-complete,
\* and the next step then runs the regular solve again.
C27_SubSteppingCompletes ==
    /\ [][RegularSolveIffComplete /\ OneEventInSubStep]_vars
    /\ (MidToi ~> (m_flags.stepComplete \/ fault # "none"))

\* Steps with sub-stepping have handled a TOI event, were repeated, and the
\* last one has returned with the step complete.
C27_Witness ==
    /\ Stepped /\ m_flags.subStepping /\ m_flags.stepComplete
    /\ \E id \in Range(ContactIds(m_contacts)) : At(m_contactBuffer, id).toiCount >= 1

\* The TOI phase of a step with continuous collision.
ToiPhase == pc = "reg" /\ pc' = "toi" /\ conf.doToi

\* A contact that has reached the sub-step limit and has no cached TOI is not
\* given one, whatever the TOI computation would report.
NoToiAtLimit ==
    \A hits \in HitSets : \A id \in Range(ContactIds(m_contacts)) :
        (At(m_contactBuffer, id).toiCount >= conf.maxSubSteps /\ At(m_contactBuffer, id).toi = NoToi)
            => ContactAt(UpdateContactTOIs(World, m_contacts, conf, hits), id).toi = NoToi

\* C28: the TOI loop of a step terminates; in one step a contact is handled
\* as a TOI event at most maxSubSteps times; a contact that has reached that
\* count is given no new cached TOI; and the loop ends, with the step
\* complete, when no contact has a valid cached TOI below 1.
C28_ToiLoopBounded ==
    [][ToiPhase =>
          /\ fault' # "hang"
          /\ fault' = "none" =>
                 /\ \A id \in Range(ContactIds(m_contacts')) : At(m_contactBuffer', id).toiCount - CountBefore(id) <= conf.maxSubSteps
                 /\ NoToiAtLimit
                 /\ ~m_flags.subStepping => (m_flags'.stepComplete /\ \A id \in Range(ContactIds(m_contacts')) : At(m_contactBuffer', id).toi \in {NoToi, 1})
                 /\ m_flags'.stepComplete => \A id \in Range(ContactIds(m_contacts')) : At(m_contactBuffer', id).toi \in {NoToi, 1}]_vars

\* The TOI loop has handled one contact twice, which is the limit of the
\* step, and has ended with the step complete.
C28_Witness ==
    /\ fault = "none" /\ pc = "toi" /\ conf.doToi /\ ~m_flags.subStepping /\ m_flags.stepComplete
    /\ conf.maxSubSteps > 1
    /\ \E id \in Range(ContactIds(m_contacts)) : At(m_contactBuffer, id).toiCount = conf.maxSubSteps /\ At(m_contactBuffer, id).toi = NoToi

\* The world in which the TOI loop of the step starts: the sweeps' alpha0,
\* the contacts' TOI and counts and the island flags are reset if the step
\* is complete.
LoopStart ==
    IF m_flags.stepComplete
    THEN [UnsetTois(ResetBodiesForSolveTOI(World, m_bodies), ContactIds(m_contacts), TRUE)
             EXCEPT !.islandedBodies = UnsetFlags(@, m_bodies), !.islandedContacts = UnsetFlags(@, ContactIds(m_contacts)), !.log = <<>>]
    ELSE [World EXCEPT !.log = <<>>]

\* The world recast for the comparison of the bodies' motion: every body's
\* sweep, transformation and velocity.
Motion(w) == [i \in 1 .. Len(w.bodyBuffer.data) |->
                 [xf |-> w.bodyBuffer.data[i].xf, pos0 |-> w.bodyBuffer.data[i].pos0, pos1 |-> w.bodyBuffer.data[i].pos1,
                  alpha0 |-> w.bodyBuffer.data[i].alpha0, velocity |-> w.bodyBuffer.data[i].velocity]]

\* The contact is disabled or not touching once its bodies are at the TOI
\* and its manifold is recomputed.
Separated(w, id) ==
    LET c == ContactAt(w, id)
        there == ContactAt(UpdateEnabled(AdvanceBody(AdvanceBody(w, c.bodyA, c.toi), c.bodyB, c.toi), id), id)
    IN  ~there.enabled \/ ~there.touching

\* The selected contact was handled without an island: every body moves as
\* before, the contact is disabled, counted and without a TOI, and nothing is
\* in an island or was reported as solved.
Backed(w, id, after) ==
    /\ Motion(after) = Motion(w)
    /\ ~ContactAt(after, id).enabled
    /\ ContactAt(after, id).toi = NoToi /\ ContactAt(after, id).toiCount = ContactAt(w, id).toiCount + 1
    /\ after.islandedBodies = w.islandedBodies /\ after.islandedContacts = w.islandedContacts
    /\ after.bodies = w.bodies /\ after.contacts = w.contacts
    /\ \A k \in 1 .. Len(after.log) : after.log[k][1] # "postsolve"

\* The first contact the TOI loop selects for the given outcome of the TOI
\* computation, handled as the claim says when it separates.
FirstSelected(hits) ==
    LET w == UpdateContactTOIs(LoopStart, m_contacts, conf, hits)
        id == GetSoonestContact(w)
        end == SolveToi(World, conf, hits)
    IN  (id # InvalidContactID /\ ~OutOfRange(w.islandedContacts, id) /\ ~w.islandedContacts[id + 1] /\ Separated(w, id))
            => /\ Ok(SolveToiContact(w, id, conf)) => Backed(w, id, SolveToiContact(w, id, conf))
               /\ (Ok(end) /\ ~m_flags.subStepping) =>
                      /\ end.flags.stepComplete
                      /\ \A k \in 1 .. Len(end.contacts) : ContactAt(end, end.contacts[k].id).toi \in {NoToi, 1}

\* C29: when the contact selected in the TOI solve is disabled or not
\* touching after its manifold was recomputed at the time of impact, both
\* bodies' sweeps are restored, the contact is left disabled, no island is
\* solved, no body's velocity or transformation changes, and the loop goes on
\* to the next contact.
C29_SeparatedContactRestores ==
    (fault = "none" /\ pc = "reg" /\ conf.doToi) => \A hits \in HitSets : FirstSelected(hits)

\* The TOI phase has ended after a contact was found apart at its time of
\* impact: it is disabled and counted, and its bodies are where the regular
\* solve put them.
C29_Witness ==
    /\ fault = "none" /\ pc = "toi" /\ conf.doToi
    /\ \E k \in 1 .. Len(m_contacts) :
           LET c == At(m_contactBuffer, m_contacts[k].id)
           IN  /\ ~c.enabled /\ c.toiCount >= 1 /\ c.toi = NoToi
               /\ \E b \in {c.bodyA, c.bodyB} : At(m_bodyBuffer, b).pos0 # At(m_bodyBuffer, b).pos1

\* The live joints attached to the body.
Attached(b) == {j \in Range(m_joints) : At(m_jointBuffer, j).bodyA = b \/ At(m_jointBuffer, j).bodyB = b}

\* How often the joint-destruction listener was told of the joint.
Told(w, j) == Cardinality({k \in 1 .. Len(w.log) : w.log[k] = <<"jointDestroyed", j>>})

\* The world after destroy-body(b) has lost exactly the joints attached to b.
JointsDestroyed(b, after) ==
    /\ Range(after.joints) = Range(m_joints) \ Attached(b) /\ NoDup(after.joints)
    /\ \A j \in Attached(b) :
           /\ Has(after.jointBuffer.free, j)
           /\ Told(after, j) = 1
           /\ \A o \in Range(after.bodies) : \A e \in Range(BodyAt(after, o).joints) : e.id # j
    /\ \A j \in Range(m_joints) \ Attached(b) :
           /\ Told(after, j) = 0
           /\ ~Has(after.jointBuffer.free, j)
           /\ At(after.jointBuffer, j) = At(m_jointBuffer, j)

\* C30: destroy-body(b) destroys exactly the joints attached to b: each is
\* removed from the world's joint list and the other body's joint list, its
\* own slot in the joint allocator is freed and the joint-destruction
\* listener is called once for it, and the slot and liveness of every other
\* joint are unchanged.
C30_DestroyBodyDestroysItsJoints ==
    (fault = "none" /\ pc = "idle" /\ ~IsLocked) =>
        \A b \in Range(m_bodies) : Ok(DestroyBodyImpl(Entry, b)) => JointsDestroyed(b, DestroyBodyImpl(Entry, b))

\* How often the contact is in the list.
Entries(list, id) == Cardinality({i \in 1 .. Len(list) : list[i].id = id})

\* The world's contact list and the contact lists of the body slots agree.
ContactListsAgree ==
    /\ \A c \in Range(m_contacts) :
           /\ Entries(m_contacts, c.id) = 1
           /\ InRange(m_contactBuffer, c.id) /\ ~Has(m_contactBuffer.free, c.id)
           /\ \A b \in {At(m_contactBuffer, c.id).bodyA, At(m_contactBuffer, c.id).bodyB} :
                  InRange(m_bodyBuffer, b) /\ Entries(At(m_bodyBuffer, b).contacts, c.id) = 1
    /\ \A b \in 0 .. Size(m_bodyBuffer) - 1 : \A e \in Range(At(m_bodyBuffer, b).contacts) :
           /\ HasEntry(m_contacts, e.id)
           /\ b \in {At(m_contactBuffer, e.id).bodyA, At(m_contactBuffer, e.id).bodyB}

\* C31: between world operations and at the end of every step phase each live
\* contact is exactly once in the world's contact list and exactly once in
\* the contact list of each of its two bodies, and no list names a contact
\* whose slot has been freed.
C31_ContactListsAgree == fault = "none" => ContactListsAgree

\* A fixture with contacts has been destroyed while another contact stays live.
C31_Witness ==
    /\ fault = "none" /\ pc = "idle" /\ lastOp = "DestroyFixture" /\ result = "ok"
    /\ m_contactBuffer.free # <<>> /\ m_contacts # <<>>
    /\ \E b \in Range(m_bodies) : Len(At(m_bodyBuffer, b).contacts) = 1 /\ Len(At(m_bodyBuffer, b).fixtures) = 1

\* The live contacts that have the fixture as one of their two fixtures.
ContactsWith(f) == {c \in Range(ContactIds(m_contacts)) : At(m_contactBuffer, c).fixtureA = f \/ At(m_contactBuffer, c).fixtureB = f}

\* The world after destroy-fixture(f) has lost the contacts and proxies of f
\* and f itself, and those of every other fixture are as before.
FixtureDestroyed(f, after) ==
    LET body == At(m_fixtureBuffer, f).body
        kept == Range(ContactIds(m_contacts)) \ ContactsWith(f)
    IN  /\ after.contacts = SeqFilter(m_contacts, {c \in Range(m_contacts) : c.id \in kept})
        /\ \A b \in Range(m_bodies) :
               ContactIds(BodyAt(after, b).contacts) = SeqFilter(ContactIds(At(m_bodyBuffer, b).contacts), kept)
        /\ \A c \in kept : ContactAt(after, c) = At(m_contactBuffer, c) /\ ~Has(after.contactBuffer.free, c)
        /\ \A c \in ContactsWith(f) : Has(after.contactBuffer.free, c)
        /\ \A p \in Range(At(m_fixtureBuffer, f).proxies) : ~IsLeaf(after.tree, p)
        /\ \A k \in 1 .. Len(m_tree) : m_tree[k].fixture # f => after.tree[k] = m_tree[k]
        /\ Len(after.tree) = Len(m_tree)
        /\ LET others == {p \in Range(m_proxies) : LeafAt(m_tree, p).fixture # f}
           IN  SeqFilter(after.proxies, others) = SeqFilter(m_proxies, others)
        /\ BodyAt(after, body).fixtures = SeqFilter(At(m_bodyBuffer, body).fixtures, {g \in LiveFixtures : g # f})
        /\ \A g \in LiveFixtures \ {f} : FixtureAt(after, g) = At(m_fixtureBuffer, g)
        /\ \A b \in Range(m_bodies) \ {body} : BodyAt(after, b).fixtures = At(m_bodyBuffer, b).fixtures

\* C32: destroy-fixture(f) removes every contact that has f as one of its two
\* fixtures from the world's list and from both bodies' lists, removes f's
\* proxies from the tree and f from its body's fixture list, and leaves the
\* contacts and proxies of every other fixture, those of the same body
\* included, unchanged.
C32_DestroyFixtureRemovesItsContacts ==
    (fault = "none" /\ pc = "idle" /\ ~IsLocked) =>
        \A f \in LiveFixtures, reset \in BOOLEAN : FixtureDestroyed(f, DestroyFixtureImpl(Entry, f, reset))

\* A fixture in contact has been destroyed, its leaf and its contact
\* slot are free and another fixture stays in contact.
C32_Witness ==
    /\ fault = "none" /\ pc = "idle" /\ lastOp = "DestroyFixture" /\ result = "ok"
    /\ \E k \in 1 .. Len(m_tree) : ~m_tree[k].used
    /\ \E b \in Range(m_bodies), c \in Range(m_contacts) :
           /\ Len(At(m_bodyBuffer, b).fixtures) = 1
           /\ At(m_contactBuffer, c.id).fixtureA \in Range(At(m_bodyBuffer, b).fixtures) \/ At(m_contactBuffer, c.id).fixtureB \in Range(At(m_bodyBuffer, b).fixtures)
           /\ Has(m_contactBuffer.free, 0)

\* Every live body's identifier is below the length of the per-body
\* island-flag vector.
BodyFlagsCover == \A b \in Range(m_bodies) : ~OutOfRange(m_islandedBodies, b)

\* C33: whenever the per-contact island-flag vector is read or written at a
\* contact identifier, the identifier is below the vector's length, also when
\* contacts with low identifiers were destroyed while contacts with higher
\* identifiers stay alive and when new contacts are found in the same step:
\* the TOI solve, whose only other indexed vector is the per-body one, never
\* indexes past the end.
C33_IslandFlagsIndexedInRange ==
    (fault = "none" /\ pc = "reg" /\ conf.doToi /\ BodyFlagsCover) =>
        \A hits \in HitSets : SolveToi([World EXCEPT !.log = <<>>], conf, hits).fault # "ub"

\* Every queued proxy is a leaf of the tree that belongs to a live fixture.
QueueSound == \A p \in Range(m_proxies) : IsLeaf(m_tree, p) /\ LeafAt(m_tree, p).fixture \in LiveFixtures

\* C34: whenever contact discovery processes the queue of moved proxies,
\* every identifier in the queue refers to a live leaf of the tree that
\* belongs to a live fixture, also when the proxy was queued more than once
\* before its fixture was destroyed or its body disabled: this holds of the
\* queue that the regular solve hands to contact discovery.
C34_QueuedProxiesAreLiveLeaves == (fault = "none" /\ pc = "updated" /\ m_flags.stepComplete) => QueueSound

\* One of the contact's two fixtures is a sensor now.
HasSensor(c) == At(m_fixtureBuffer, c.fixtureA).sensor \/ At(m_fixtureBuffer, c.fixtureB).sensor

\* Every live contact's sensor flag is that of its fixtures.
SensorFlagsCurrent == \A e \in Range(m_contacts) : At(m_contactBuffer, e.id).sensor = HasSensor(At(m_contactBuffer, e.id))

\* No island of the regular solve holds a contact with a sensor fixture, and
\* an island holds every enabled touching contact between solid fixtures of
\* its speedable bodies.
IslandsFollowFixtures ==
    \A k \in 1 .. Len(islands) :
        /\ \A c \in Range(islands[k].contacts) : ~HasSensor(At(m_contactBuffer, c))
        /\ \A b \in Speedables(islands[k]) : \A e \in Range(At(m_bodyBuffer, b).contacts) :
               LET c == At(m_contactBuffer, e.id)
               IN  (c.enabled /\ c.touching /\ ~HasSensor(c)) => Has(islands[k].contacts, e.id)

\* C35: after every Step with a non-zero time step each contact's sensor flag
\* equals (fixture A is a sensor or fixture B is a sensor) for the current
\* fixture settings, also when set-sensor changed a fixture that already had
\* contacts; so a contact with a fixture turned into a sensor is in no island,
\* and a touching contact whose fixtures have stopped being sensors is in its
\* bodies' island.
C35_SensorFlagFollowsFixtures ==
    /\ (Stepped /\ conf.deltaTime # 0) => SensorFlagsCurrent
    /\ (fault = "none" /\ pc = "reg") => IslandsFollowFixtures

\* A whole Step without TOI handling on a world whose last step is complete.
WholeStep(w, cf) ==
    [SolveReg(UpdateContacts(PreStep([w EXCEPT !.flags.locked = TRUE, !.log = <<>>], cf)), cf) EXCEPT !.flags.locked = FALSE, !.islands = <<>>]

\* The two proxies are leaves whose stored AABBs overlap and whose bodies,
\* joints and filters permit a contact (the tests of WorldImpl::Add).
Collidable(w, q) ==
    /\ IsLeaf(w.tree, q[1]) /\ IsLeaf(w.tree, q[2])
    /\ TestOverlap(w.tree, q[1], q[2])
    /\ ShouldCollide(w, BodyAt(w, LeafAt(w.tree, q[2]).body), BodyAt(w, LeafAt(w.tree, q[1]).body), LeafAt(w.tree, q[1]).body)
    /\ FiltersCollide(FixtureAt(w, LeafAt(w.tree, q[1]).fixture), FixtureAt(w, LeafAt(w.tree, q[2]).fixture))

\* The world has a contact for each of the proxy pairs that is collidable.
Recontacted(w, pairs) == \A q \in pairs : Collidable(w, q) => \E i \in 1 .. Len(w.contacts) : w.contacts[i].key = q

\* The proxy pairs of the body's contacts.
PairsOf(b) == {e.key : e \in Range(At(m_bodyBuffer, b).contacts)}

\* Set-type has destroyed the body's contacts, and a Step brings back those
\* that are still collidable.
Retyped(b, after) ==
    /\ BodyAt(after, b).contacts = <<>>
    /\ \A e \in Range(after.contacts) : b \notin {ContactAt(after, e.id).bodyA, ContactAt(after, e.id).bodyB}
    /\ Ok(WholeStep(after, OneStep)) => Recontacted(WholeStep(after, OneStep), PairsOf(b))

\* C36: set-type that changes a body's type destroys every contact attached
\* to the body at once, and the next Step with a non-zero time step creates a
\* contact again for every proxy pair of the body that still overlaps and is
\* permitted to collide under the new type, without any body having to move.
C36_SetTypeRecreatesContacts ==
    (fault = "none" /\ pc = "idle" /\ ~IsLocked /\ m_flags.stepComplete) =>
        \A b \in Range(m_bodies) : \A type \in BodyTypes \ {At(m_bodyBuffer, b).type} :
            Ok(SetTypeImpl(Entry, b, type)) => Retyped(b, SetTypeImpl(Entry, b, type))

\* The pairs of leaves of which one belongs to each of the two bodies.
PairsBetween(a, b) == {q \in ProxyPairs : {LeafAt(m_tree, q[1]).body, LeafAt(m_tree, q[2]).body} = {a, b}}

\* The live joints that alone forbid the collision of their two bodies.
SoleForbidding == {j \in Range(m_joints) : Forbidding(At(m_jointBuffer, j).bodyA, At(m_jointBuffer, j).bodyB) = {j}}

\* After the joint is gone a Step brings the collidable pairs of its two
\* bodies into contact.
Unjoined(j, after) ==
    Ok(WholeStep(after, OneStep)) =>
        Recontacted(WholeStep(after, OneStep), PairsBetween(At(m_jointBuffer, j).bodyA, At(m_jointBuffer, j).bodyB))

\* C37: after destroy-joint or set-joint removes the only joint with
\* collide-connected false between two bodies whose proxies overlap and
\* whose filters permit collision, the next Step with a non-zero time step
\* creates a contact between the two bodies even if neither has moved.
C37_UnjoinedBodiesCollide ==
    (fault = "none" /\ pc = "idle" /\ ~IsLocked /\ m_flags.stepComplete) =>
        \A j \in SoleForbidding :
            /\ Unjoined(j, DestroyJointImpl(Entry, j))
            /\ Unjoined(j, SetJointImpl(Entry, j, [At(m_jointBuffer, j) EXCEPT !.collideConnected = TRUE]))

\* The contacts the regular solve has put into an island or reported to the
\* post-solve listener.
SolvedContacts == UNION {Range(islands[k].contacts) : k \in 1 .. Len(islands)} \cup {c \in ContactSlots : Has(log, <<"postsolve", c>>)}

\* The regular solve has run and has left out the disabled contacts.
DisabledLeftOut == (pc = "updated" /\ pc' = "reg") => \A e \in Range(m_contacts) : ~At(m_contactBuffer, e.id).enabled => e.id \notin SolvedContacts'

\* The contact-update phase has run and has enabled the contacts of which a
\* body is awake.
AwakeEnabled ==
    (pc = "pre" /\ pc' = "updated") => \A e \in Range(m_contacts) :
        (At(m_bodyBuffer, At(m_contactBuffer, e.id).bodyA).awake \/ At(m_bodyBuffer, At(m_contactBuffer, e.id).bodyB).awake)
            => At(m_contactBuffer', e.id).enabled

C39_GearSolvedOnlyWithinSlop ==
    (gear.calls # <<>> /\ Last(gear.calls) = "solve" /\ gear.solved) =>
        GetLength(ConstraintError(gear.joint, gear.bodies)) <= gear.conf.linearSlop

\* The contact and manifold allocators have the same size and the same free
\* list in the same order.
Lockstep == Size(m_contactBuffer) = Size(m_manifoldBuffer) /\ m_contactBuffer.free = m_manifoldBuffer.free

\* Every live contact has a manifold slot of its own, at its identifier.
ManifoldsOwned ==
    /\ \A i \in 1 .. Len(m_contacts) : InRange(m_manifoldBuffer, m_contacts[i].id) /\ ~Has(m_manifoldBuffer.free, m_contacts[i].id)
    /\ \A i, j \in 1 .. Len(m_contacts) : m_contacts[i].id = m_contacts[j].id => i = j

\* C40: the contact allocator and the manifold allocator stay in lockstep:
\* after any sequence of contact creations and destructions both have the same
\* size and the same free list in the same order, so the manifold slot
\* allocated for a new contact has the index of the contact's identifier and
\* no live contact shares a manifold slot with another.
C40_AllocatorsInLockstep ==
    fault = "none" => (Lockstep /\ AllocIndex(m_manifoldBuffer) = AllocIndex(m_contactBuffer) /\ ManifoldsOwned)

\* Between calls, a live contact while the slots of two destroyed contacts
\* are in the free lists.
C40_Witness ==
    /\ fault = "none" /\ pc = "idle"
    /\ m_contacts # <<>>
    /\ Len(m_contactBuffer.free) >= 2
====
